---------------------------- MODULE Spec2Model ----------------------------
(***************************************************************************)
(* The 3D-printing construction dashboard (src/map_dashboard.py and its    *)
(* older variant src/app.py) as a state machine: the Dash callbacks that   *)
(* keep the selection, the detail panel, the filters and the chat, and the *)
(* pure functions they call (material classifier, command parser, filter). *)
(*                                                                         *)
(* Text is a sequence of one-character strings, so that lower(), the `in`  *)
(* substring test and the regular expressions of the source are computed   *)
(* and not assumed.                                                        *)
(***************************************************************************)
EXTENDS Integers, Sequences, FiniteSets, TLC

(***************************************************************************)
(* Text primitives (Python str).                                           *)
(***************************************************************************)
UpperCase ==
    <<"A","B","C","D","E","F","G","H","I","J","K","L","M",
      "N","O","P","Q","R","S","T","U","V","W","X","Y","Z">>

LowerCase ==
    <<"a","b","c","d","e","f","g","h","i","j","k","l","m",
      "n","o","p","q","r","s","t","u","v","w","x","y","z">>

Digits == <<"0","1","2","3","4","5","6","7","8","9">>

\* one character of str.lower()
LowerChar(c) ==
    IF \E i \in DOMAIN UpperCase : UpperCase[i] = c
    THEN LowerCase[CHOOSE i \in DOMAIN UpperCase : UpperCase[i] = c]
    ELSE c

\* str.lower()
lower(s) == [i \in 1..Len(s) |-> LowerChar(s[i])]

\* Python `sub in s`
contains(sub, s) ==
    \E i \in 0..(Len(s) - Len(sub)) : SubSeq(s, i + 1, i + Len(sub)) = sub

\* str.replace(c, '') for a single character c
remove_char(s, c) == SelectSeq(s, LAMBDA x : x # c)

\* regular expression classes \d, \s and \w
IsDigit(c) == \E i \in DOMAIN Digits : Digits[i] = c

IsSpace(c) == c \in {" ", "\t", "\n", "\r", "\f"}

IsWord(c) ==
    \/ IsDigit(c)
    \/ c = "_"
    \/ \E i \in DOMAIN LowerCase : LowerCase[i] = c \/ UpperCase[i] = c

DigitVal(c) == (CHOOSE i \in DOMAIN Digits : Digits[i] = c) - 1

\* \d{4} at position i
Digits4(s, i) ==
    /\ i >= 1
    /\ i + 3 <= Len(s)
    /\ \A k \in i..(i + 3) : IsDigit(s[k])

\* int() of the four digits at position i
Int4(s, i) ==
    1000 * DigitVal(s[i]) + 100 * DigitVal(s[i + 1])
        + 10 * DigitVal(s[i + 2]) + DigitVal(s[i + 3])

\* the position after a maximal run of \s starting at i (greedy \s*)
RECURSIVE SkipSpaces(_, _)
SkipSpaces(s, i) ==
    IF i <= Len(s) /\ IsSpace(s[i]) THEN SkipSpaces(s, i + 1) ELSE i

\* a literal at position i
LitAt(s, i, lit) ==
    /\ i >= 1
    /\ i + Len(lit) - 1 <= Len(s)
    /\ SubSeq(s, i, i + Len(lit) - 1) = lit

(***************************************************************************)
(* categorize_material: the first keyword group found in the lowercased    *)
(* material text decides.                                                  *)
(***************************************************************************)
categorize_material_MetalFirst(material) ==
    LET material_lower == lower(material) IN
    IF contains(<<"m","e","t","a","l">>, material_lower)
    THEN "Metal"
    ELSE IF \E term \in {<<"c","o","n","c","r","e","t","e">>, <<"c","e","m","e","n","t">>} :
           contains(term, material_lower)
    THEN "Concrete/Cement"
    ELSE IF \E term \in {<<"c","e","r","a","m","i","c">>, <<"c","l","a","y">>} :
           contains(term, material_lower)
    THEN "Ceramics/Clay"
    ELSE IF contains(<<"c","o","m","p","o","s","i","t","e">>, material_lower)
    THEN "Composite"
    ELSE IF \E term \in {<<"p","l","a","s","t","i","c">>, <<"p","o","l","y","m","e","r">>} :
           contains(term, material_lower)
    THEN "Plastic/Polymer"
    ELSE "Other/Experimental"

categorize_material(material) ==
    LET material_lower == lower(material) IN
    IF \E term \in {<<"c","o","n","c","r","e","t","e">>, <<"c","e","m","e","n","t">>} :
           contains(term, material_lower)
    THEN "Concrete/Cement"
    ELSE IF \E term \in {<<"c","e","r","a","m","i","c">>, <<"c","l","a","y">>} :
           contains(term, material_lower)
    THEN "Ceramics/Clay"
    ELSE IF contains(<<"c","o","m","p","o","s","i","t","e">>, material_lower)
    THEN "Composite"
    ELSE IF \E term \in {<<"p","l","a","s","t","i","c">>, <<"p","o","l","y","m","e","r">>} :
           contains(term, material_lower)
    THEN "Plastic/Polymer"
    ELSE IF contains(<<"m","e","t","a","l">>, material_lower)
    THEN "Metal"
    ELSE "Other/Experimental"

(***************************************************************************)
(* parse_filter_command.  The result is the Python dict `commands`: a      *)
(* function whose domain is the set of keys that were set.                 *)
(***************************************************************************)
\* material_mappings, in dict (insertion) order
material_mappings ==
    << <<<<"c","o","n","c","r","e","t","e">>, "Concrete/Cement">>,
       <<<<"c","e","m","e","n","t">>, "Concrete/Cement">>,
       <<<<"c","e","r","a","m","i","c">>, "Ceramics/Clay">>,
       <<<<"c","l","a","y">>, "Ceramics/Clay">>,
       <<<<"c","o","m","p","o","s","i","t","e">>, "Composite">>,
       <<<<"p","l","a","s","t","i","c">>, "Plastic/Polymer">>,
       <<<<"p","o","l","y","m","e","r">>, "Plastic/Polymer">>,
       <<<<"m","e","t","a","l">>, "Metal">>,
       <<<<"e","x","p","e","r","i","m","e","n","t","a","l">>, "Other/Experimental">> >>

reset_keywords ==
    { <<"r","e","s","e","t">>,
      <<"c","l","e","a","r">>,
      <<"a","l","l"," ","p","r","o","j","e","c","t","s">>,
      <<"s","h","o","w"," ","a","l","l">>,
      <<"r","e","m","o","v","e"," ","f","i","l","t","e","r","s">> ,
      <<"n","o"," ","f","i","l","t","e","r">> }

\* the empty dict
EmptyDict == [k \in {} |-> TRUE]

\* Python min/max of a pair
Min2(a, b) == IF a <= b THEN a ELSE b

Max2(a, b) == IF a <= b THEN b ELSE a

\* the character class [-...] of the second range pattern, as each file spells it
DashClass(v) ==
    IF v = "map_dashboard" THEN {"-", "EN_DASH"}
    ELSE {"-", "A_CIRCUMFLEX", "EURO_SIGN", "LEFT_DOUBLE_QUOTE"}

\* (?:from|between)\s+(\d{4})\s+(?:to|and)\s+(\d{4}) anchored at i: <<X, Y>> or <<>>
RangePattern1At(s, i) ==
    LET kwEnd == IF LitAt(s, i, <<"f","r","o","m">>) THEN i + 4
                 ELSE IF LitAt(s, i, <<"b","e","t","w","e","e","n">>) THEN i + 7
                 ELSE 0
        x     == SkipSpaces(s, kwEnd)
        sep   == SkipSpaces(s, x + 4)
        sepEnd == IF LitAt(s, sep, <<"t","o">>) THEN sep + 2
                  ELSE IF LitAt(s, sep, <<"a","n","d">>) THEN sep + 3
                  ELSE 0
        y     == SkipSpaces(s, sepEnd)
    IN  IF /\ kwEnd > 0
           /\ x > kwEnd
           /\ Digits4(s, x)
           /\ sep > x + 4
           /\ sepEnd > 0
           /\ y > sepEnd
           /\ Digits4(s, y)
        THEN <<Int4(s, x), Int4(s, y)>>
        ELSE <<>>

\* (\d{4})\s*[-...]\s*(\d{4}) anchored at i
RangePattern2At(v, s, i) ==
    LET dash == SkipSpaces(s, i + 4)
        y    == SkipSpaces(s, dash + 1)
    IN  IF /\ Digits4(s, i)
           /\ dash <= Len(s)
           /\ s[dash] \in DashClass(v)
           /\ Digits4(s, y)
        THEN <<Int4(s, i), Int4(s, y)>>
        ELSE <<>>

\* (\d{4})\s+to\s+(\d{4}) anchored at i
RangePattern3At(s, i) ==
    LET sep == SkipSpaces(s, i + 4)
        y   == SkipSpaces(s, sep + 2)
    IN  IF /\ Digits4(s, i)
           /\ sep > i + 4
           /\ LitAt(s, sep, <<"t","o">>)
           /\ y > sep + 2
           /\ Digits4(s, y)
        THEN <<Int4(s, i), Int4(s, y)>>
        ELSE <<>>

\* the n-th of range_patterns anchored at i
RangePatternAt(v, n, s, i) ==
    CASE n = 1 -> RangePattern1At(s, i)
      [] n = 2 -> RangePattern2At(v, s, i)
      [] n = 3 -> RangePattern3At(s, i)

\* re.search(range_patterns[n], s): the groups of the leftmost match, or <<>>
re_search(v, n, s) ==
    LET hits == {i \in 1..Len(s) : RangePatternAt(v, n, s, i) # <<>>} IN
    IF hits = {} THEN <<>>
    ELSE RangePatternAt(v, n, s, CHOOSE i \in hits : \A j \in hits : i <= j)

\* \b(20[0-9]{2}|19[0-9]{2})\b anchored at i
YearTokenAt(s, i) ==
    /\ Digits4(s, i)
    /\ (i = 1 \/ ~IsWord(s[i - 1]))
    /\ \/ (s[i] = "2" /\ s[i + 1] = "0")
       \/ (s[i] = "1" /\ s[i + 1] = "9")
    /\ (i + 3 = Len(s) \/ ~IsWord(s[i + 4]))

\* re.findall of the year token from position i on: non-overlapping, left to right
RECURSIVE re_findall_years(_, _)
re_findall_years(s, i) ==
    IF i > Len(s) THEN <<>>
    ELSE IF YearTokenAt(s, i)
         THEN <<Int4(s, i)>> \o re_findall_years(s, i + 4)
         ELSE re_findall_years(s, i + 1)

\* the keyword that occurs earliest in the message decides
ParseMaterial_ByPosition(message_lower) ==
    LET hits == {k \in DOMAIN material_mappings :
                    contains(material_mappings[k][1], message_lower)}
        At(k) == CHOOSE i \in 1..Len(message_lower) :
                    /\ LitAt(message_lower, i, material_mappings[k][1])
                    /\ \A j \in 1..(i - 1) :
                           ~LitAt(message_lower, j, material_mappings[k][1])
    IN  IF hits = {} THEN EmptyDict
        ELSE [material |->
                 material_mappings[CHOOSE k \in hits :
                                       \A j \in hits : At(k) <= At(j)][2]]

\* the material loop: first keyword of material_mappings found in message_lower
ParseMaterial(message_lower) ==
    LET hits == {k \in DOMAIN material_mappings :
                    contains(material_mappings[k][1], message_lower)}
    IN  IF hits = {} THEN EmptyDict
        ELSE [material |->
                 material_mappings[CHOOSE k \in hits : \A j \in hits : k <= j][2]]

\* the year part: the three range patterns in order, then the token fallback
ParseYearRange_AsWritten(v, message) ==
    LET message_lower == lower(message)
        matching == {n \in 1..3 : re_search(v, n, message_lower) # <<>>}
        year_matches == re_findall_years(message, 1)
    IN  IF matching # {}
        THEN LET g == re_search(v, CHOOSE n \in matching : \A m \in matching : n <= m,
                                message_lower)
             IN  [year_range |-> <<g[1], g[2]>>]
        ELSE IF Len(year_matches) >= 2
        THEN [year_range |-> <<year_matches[1], year_matches[2]>>]
        ELSE IF Len(year_matches) = 1
        THEN [year_range |-> <<year_matches[1], year_matches[1]>>]
        ELSE EmptyDict

\* the fallback takes the smallest and the largest of every token found
ParseYearRange_AllTokens(v, message) ==
    LET message_lower == lower(message)
        matching == {n \in 1..3 : re_search(v, n, message_lower) # <<>>}
        year_matches == re_findall_years(message, 1)
        ys == {year_matches[k] : k \in DOMAIN year_matches}
    IN  IF matching # {}
        THEN LET g == re_search(v, CHOOSE n \in matching : \A m \in matching : n <= m,
                                message_lower)
             IN  [year_range |-> <<Min2(g[1], g[2]), Max2(g[1], g[2])>>]
        ELSE IF Len(year_matches) >= 1
        THEN [year_range |-> <<CHOOSE a \in ys : \A b \in ys : a <= b,
                               CHOOSE a \in ys : \A b \in ys : a >= b>>]
        ELSE EmptyDict

ParseYearRange(v, message) ==
    LET message_lower == lower(message)
        matching == {n \in 1..3 : re_search(v, n, message_lower) # <<>>}
        year_matches == re_findall_years(message, 1)
    IN  IF matching # {}
        THEN LET g == re_search(v, CHOOSE n \in matching : \A m \in matching : n <= m,
                                message_lower)
             IN  [year_range |-> <<Min2(g[1], g[2]), Max2(g[1], g[2])>>]
        ELSE IF Len(year_matches) >= 2
        THEN [year_range |-> <<Min2(year_matches[1], year_matches[2]),
                               Max2(year_matches[1], year_matches[2])>>]
        ELSE IF Len(year_matches) = 1
        THEN [year_range |-> <<year_matches[1], year_matches[1]>>]
        ELSE EmptyDict

\* the reset key is always written, with the outcome of the keyword test
ParseReset_AlwaysSet(message_lower) ==
    [reset |-> \E keyword \in reset_keywords : contains(keyword, message_lower)]

\* the reset part
ParseReset(message_lower) ==
    IF \E keyword \in reset_keywords : contains(keyword, message_lower)
    THEN [reset |-> TRUE]
    ELSE EmptyDict

ParseCommand(v, message) ==
    ParseMaterial(lower(message)) @@ ParseYearRange(v, message)
        @@ ParseReset(lower(message))

(***************************************************************************)
(* The chat messages the sessions send, and parse_filter_command on them   *)
(* (the parse of a message of this set is computed once).                  *)
(***************************************************************************)
\* chat messages
MsgReset == <<"r","e","s","e","t">>

MsgMaterial == <<"s","h","o","w"," ","M","e","t","a","l"," ","p","r","o","j","e","c","t","s">>

MsgYear == <<"f","r","o","m"," ","2","0","2","1">>

MsgResetAndFilters ==
    <<"c","l","e","a","r"," ","b","u","t"," ","s","h","o","w"," ","c","o","n","c","r","e","t","e"," ","f","r","o","m"," ","2","0","2","0","-","2","0","2","2">>

MsgPlain == <<"h","i">>

MsgEasterEgg ==
    <<"I"," ","a","m"," ","P","K"," ","a","n","d"," ","I"," ","l","i","k","e"," ","p","i","z","z","a"," ","h","a","w","a","i","i","!">>

\* the years named in descending order
MsgReversed == <<"2","0","2","1"," ","t","o"," ","2","0","2","0">>

SelMessages == {MsgMaterial}

\* the messages of a session that mixes the filter widgets and the chat
FilterMessages == {MsgReset, MsgReversed}

ChatMessages ==
    {<<>>, MsgMaterial, MsgYear, MsgResetAndFilters, MsgPlain, MsgEasterEgg}

ParseTable ==
    [vm \in {"map_dashboard", "app"}
              \X (ChatMessages \cup SelMessages \cup FilterMessages)
        |-> ParseCommand(vm[1], vm[2])]

parse_filter_command(v, message) ==
    IF <<v, message>> \in DOMAIN ParseTable
    THEN ParseTable[<<v, message>>]
    ELSE ParseCommand(v, message)


(***************************************************************************)
(* The project catalog: projects.csv as read by load_data.  A cell is text *)
(* or NaN (an empty cell).                                                 *)
(***************************************************************************)
NaN == <<"NaN">>

\* the rows of projects.csv
RawRows ==
    << [Project |-> <<"T","e","c","l","a">>, Year |-> <<"2","0","2","1">>,
        Country |-> <<"I","t","a","l","y">>, City |-> <<"M","a","s","s","a">>,
        Material |-> <<"R","a","w"," ","C","l","a","y">>,
        Organization |-> <<"W","A","S","P">>,
        Latitude |-> <<"4","4">>, Longitude |-> <<"1","2">>],
       [Project |-> <<"G","h","o","s","t">>, Year |-> <<"2","0","x","1">>,
        Country |-> <<"S","p","a","i","n">>, City |-> <<"M","a","d","r","i","d">>,
        Material |-> <<"C","o","n","c","r","e","t","e">>,
        Organization |-> <<"A","c","c","i","o","n","a">>,
        Latitude |-> <<"4","4">>, Longitude |-> <<"1","2">>],
       [Project |-> <<"B","o","d">>, Year |-> <<"2","0","1","9">>,
        Country |-> <<"D","e","n","m","a","r","k">>, City |-> NaN,
        Material |-> <<"C","o","n","c","r","e","t","e">>,
        Organization |-> <<"C","O","B","O","D">>,
        Latitude |-> <<"5","5">>, Longitude |-> <<"1","2">>],
       [Project |-> <<"O","r","p","h","a","n">>, Year |-> <<"2","0","2","0">>,
        Country |-> <<"I","t","a","l","y">>, City |-> <<"M","a","s","s","a">>,
        Material |-> <<"C","o","n","c","r","e","t","e">>,
        Organization |-> NaN,
        Latitude |-> <<"4","4">>, Longitude |-> <<"1","2">>],
       [Project |-> <<"B","r","i","d","g","e">>, Year |-> <<"2","0","2","1">>,
        Country |-> <<"S","p","a","i","n">>, City |-> <<"M","a","d","r","i","d">>,
        Material |-> <<"M","i","c","r","o"," ","C","o","n","c","r","e","t","e">>,
        Organization |-> <<"A","c","c","i","o","n","a">>,
        Latitude |-> NaN, Longitude |-> NaN] >>

\* pd.to_numeric(errors='coerce') accepts the cell (digit strings; anything else
\* in the catalogs used here is not a number)
IsNumeric(cell) ==
    /\ cell # NaN
    /\ Len(cell) > 0
    /\ \A i \in 1..Len(cell) : IsDigit(cell[i])

\* the number a numeric cell denotes
RECURSIVE to_numeric(_)
to_numeric(cell) ==
    IF Len(cell) = 1 THEN DigitVal(cell[1])
    ELSE 10 * to_numeric(SubSeq(cell, 1, Len(cell) - 1)) + DigitVal(cell[Len(cell)])

\* a row without an organization is kept
load_data_OrganizationOptional(rows) ==
    LET kept == SelectSeq(rows, LAMBDA r :
                    /\ r.Project # NaN
                    /\ r.Year # NaN
                    /\ r.Country # NaN
                    /\ r.Material # NaN
                    /\ IsNumeric(r.Year))
    IN  [i \in 1..Len(kept) |->
            [Project |-> kept[i].Project,
             Year |-> to_numeric(kept[i].Year),
             Country |-> kept[i].Country,
             City |-> kept[i].City,
             Material |-> kept[i].Material,
             Organization |-> kept[i].Organization,
             Latitude |-> kept[i].Latitude,
             Longitude |-> kept[i].Longitude,
             Material_Category |-> categorize_material(kept[i].Material)]]

\* load_data: dropna on the five required columns, Year coerced to a number,
\* dropna on Year; the Material_Category column is added right after the load
load_data(rows) ==
    LET kept == SelectSeq(rows, LAMBDA r :
                    /\ r.Project # NaN
                    /\ r.Year # NaN
                    /\ r.Country # NaN
                    /\ r.Material # NaN
                    /\ r.Organization # NaN
                    /\ IsNumeric(r.Year))
    IN  [i \in 1..Len(kept) |->
            [Project |-> kept[i].Project,
             Year |-> to_numeric(kept[i].Year),
             Country |-> kept[i].Country,
             City |-> kept[i].City,
             Material |-> kept[i].Material,
             Organization |-> kept[i].Organization,
             Latitude |-> kept[i].Latitude,
             Longitude |-> kept[i].Longitude,
             Material_Category |-> categorize_material(kept[i].Material)]]

\* the module-level DataFrame
df == load_data(RawRows)

\* load_data with its try/except: a file that is not there, or that read_csv
\* or dropna cannot handle, raises inside the try and gives pd.DataFrame()
load_data_file(file) ==
    IF file.kind = "csv" THEN load_data(file.rows) ELSE <<>>

\* int(df['Year'].min()), int(df['Year'].max())
YearMin == CHOOSE y \in {df[i].Year : i \in DOMAIN df} :
               \A i \in DOMAIN df : y <= df[i].Year

YearMax == CHOOSE y \in {df[i].Year : i \in DOMAIN df} :
               \A i \in DOMAIN df : y >= df[i].Year

\* the names of the catalog's projects
ProjectNames == {df[i].Project : i \in DOMAIN df}

(***************************************************************************)
(* The filter of update_dashboard / update_dashboard_with_selection.       *)
(***************************************************************************)
\* re.search(pat, s) for a pattern of literal characters and '.', which stands
\* for any character but a newline
re_contains(pat, s) ==
    \E i \in 0..(Len(s) - Len(pat)) :
        \A k \in 1..Len(pat) :
            \/ pat[k] = s[i + k]
            \/ pat[k] = "." /\ s[i + k] # "\n"

\* Series.str.lower().str.contains(term, na=False) on one cell: the term is a
\* regular expression (regex=True is the default of str.contains)
str_contains(term, cell) ==
    IF cell = NaN THEN FALSE ELSE re_contains(term, lower(cell))

\* the year step
FilterYear_Exclusive(rows, year_range) ==
    SelectSeq(rows, LAMBDA r : r.Year > year_range[1] /\ r.Year < year_range[2])

FilterYear(rows, year_range) ==
    SelectSeq(rows, LAMBDA r : r.Year >= year_range[1] /\ r.Year <= year_range[2])

\* the material step
FilterMaterial(rows, material_filter) ==
    IF material_filter # "all"
    THEN SelectSeq(rows, LAMBDA r : r.Material_Category = material_filter)
    ELSE rows

\* the search step
FilterSearch(rows, search_term) ==
    IF search_term # <<>>
    THEN LET term == lower(search_term) IN
         SelectSeq(rows, LAMBDA r :
             \/ str_contains(term, r.Project)
             \/ str_contains(term, r.Organization)
             \/ str_contains(term, r.Country)
             \/ str_contains(term, r.City)
             \/ str_contains(term, r.Material))
    ELSE rows

\* the three steps on a catalog
filter_rows_SearchOnCatalog(rows, material_filter, year_range, search_term) ==
    IF search_term # <<>>
    THEN FilterSearch(rows, search_term)
    ELSE FilterMaterial(FilterYear(rows, year_range), material_filter)

filter_rows_MaterialIgnored(rows, material_filter, year_range, search_term) ==
    FilterSearch(FilterYear(rows, year_range), search_term)

filter_rows(rows, material_filter, year_range, search_term) ==
    FilterSearch(FilterMaterial(FilterYear(rows, year_range), material_filter),
                 search_term)

\* filtered_df
FilteredRows(material_filter, year_range, search_term) ==
    filter_rows(df, material_filter, year_range, search_term)

\* the Project column of a frame, in row order
NamesOf(rows) == [i \in 1..Len(rows) |-> rows[i].Project]

(***************************************************************************)
(* The three views.                                                        *)
(***************************************************************************)
\* one point of a Scattergeo trace: its customdata and whether it has a position
PointsOf(rows) ==
    [i \in 1..Len(rows) |->
        [customdata |-> rows[i].Project,
         positioned |-> rows[i].Latitude # NaN /\ rows[i].Longitude # NaN]]

\* the 'selected_project' trace is added before the 'projects' trace
MapFigureSelection_SelectedFirst(rows, new_selected) ==
    IF Len(rows) > 0
    THEN LET non_selected == SelectSeq(rows, LAMBDA r : r.Project # new_selected)
             selected     == SelectSeq(rows, LAMBDA r : r.Project = new_selected)
         IN  (IF Len(selected) > 0 /\ new_selected # <<>>
              THEN <<[name |-> "selected_project", points |-> PointsOf(selected)]>>
              ELSE <<>>)
             \o
             (IF Len(non_selected) > 0
              THEN <<[name |-> "projects", points |-> PointsOf(non_selected)]>>
              ELSE <<>>)
    ELSE <<>>

\* map_dashboard: the 'projects' trace first, the 'selected_project' trace last
MapFigureSelection(rows, new_selected) ==
    IF Len(rows) > 0
    THEN LET non_selected == SelectSeq(rows, LAMBDA r : r.Project # new_selected)
             selected     == SelectSeq(rows, LAMBDA r : r.Project = new_selected)
         IN  (IF Len(non_selected) > 0
              THEN <<[name |-> "projects", points |-> PointsOf(non_selected)]>>
              ELSE <<>>)
             \o
             (IF Len(selected) > 0 /\ new_selected # <<>>
              THEN <<[name |-> "selected_project", points |-> PointsOf(selected)]>>
              ELSE <<>>)
    ELSE <<>>

\* app: one trace with every filtered row
MapFigurePlain(rows) ==
    IF Len(rows) > 0
    THEN <<[name |-> "projects", points |-> PointsOf(rows)]>>
    ELSE <<>>

\* groupby('Year').size(): (year, count) pairs, ascending by year
RECURSIVE SortedAscending(_)
SortedAscending(S) ==
    IF S = {} THEN <<>>
    ELSE LET m == CHOOSE x \in S : \A y \in S : x <= y
         IN  <<m>> \o SortedAscending(S \ {m})

\* every year between the first and the last filtered year gets an entry
TimelineFigure_ZeroFilled(rows) ==
    LET present == {rows[i].Year : i \in 1..Len(rows)}
        years == SortedAscending({y \in YearMin..YearMax :
                                     \E a, b \in present : a <= y /\ y <= b})
    IN  [k \in 1..Len(years) |->
            [Year |-> years[k],
             Count |-> Cardinality({i \in 1..Len(rows) : rows[i].Year = years[k]})]]

TimelineFigure(rows) ==
    LET years == SortedAscending({rows[i].Year : i \in 1..Len(rows)})
    IN  [k \in 1..Len(years) |->
            [Year |-> years[k],
             Count |-> Cardinality({i \in 1..Len(rows) : rows[i].Year = years[k]})]]

\* no placeholder for an empty frame
ProjectList_NoPlaceholder(rows, new_selected) ==
    [i \in 1..Len(rows) |->
        [kind |-> "project-item",
         project_name |-> rows[i].Project,
         highlighted |-> (rows[i].Project = new_selected)]]

\* the sidebar list; new_selected is <<>> where the variant has no highlight
ProjectList(rows, new_selected) ==
    IF Len(rows) > 0
    THEN [i \in 1..Len(rows) |->
            [kind |-> "project-item",
             project_name |-> rows[i].Project,
             highlighted |-> (rows[i].Project = new_selected)]]
    ELSE <<[kind |-> "placeholder", project_name |-> <<>>, highlighted |-> FALSE]>>

(***************************************************************************)
(* Selection and the detail panel.                                         *)
(*                                                                         *)
(* A trigger is ctx.triggered[0] of a callback run: the prop_id that fired  *)
(* it, the project a click names (customdata of the clicked point, or the  *)
(* project_name of the clicked list item's id) and, for the n_clicks list  *)
(* of the sidebar items, whether any of them is positive.                  *)
(***************************************************************************)
Trigger(prop_id, project, any_clicks) ==
    [prop_id |-> prop_id, project |-> project, any_clicks |-> any_clicks]

\* the detail panel's content: "" or the details of a project or the error box
NoContent == [kind |-> "empty", project |-> <<>>]

\* the panel body built from df[df['Project'] == name].iloc[0]; iloc[0] raises on
\* a name the catalog does not hold and the except branch shows the error box
PanelContent(name) ==
    IF name \in ProjectNames
    THEN [kind |-> "details", project |-> name]
    ELSE [kind |-> "error", project |-> name]

\* clicked_project if clicked_project != current_selected else ""
ToggleSelection_NoToggleOff(clicked_project, current_selected) ==
    clicked_project

ToggleSelection_ClearOnSwitch(clicked_project, current_selected) ==
    IF current_selected = <<>> THEN clicked_project ELSE <<>>

ToggleSelection(clicked_project, current_selected) ==
    IF clicked_project # current_selected THEN clicked_project ELSE <<>>

\* map_dashboard: new_selected of update_dashboard_with_selection
NewSelected_CloseKeeps(trigger, current_selected) ==
    IF trigger.prop_id \in {"world-map.clickData", "project-item.n_clicks"}
    THEN ToggleSelection(trigger.project, current_selected)
    ELSE current_selected

NewSelected_FilterClears(trigger, current_selected) ==
    IF trigger.prop_id = "close-panel.n_clicks" THEN <<>>
    ELSE IF trigger.prop_id \in {"world-map.clickData", "project-item.n_clicks"}
    THEN ToggleSelection(trigger.project, current_selected)
    ELSE <<>>

NewSelected(trigger, current_selected) ==
    IF trigger.prop_id = "close-panel.n_clicks" THEN <<>>
    ELSE IF trigger.prop_id = "world-map.clickData"
    THEN ToggleSelection(trigger.project, current_selected)
    ELSE IF trigger.prop_id = "project-item.n_clicks"
    THEN ToggleSelection(trigger.project, current_selected)
    ELSE current_selected

\* map_dashboard: the views of update_dashboard_with_selection
RenderWithSelection_StaleHighlight(material, year_range, search_term, new_selected, current_selected) ==
    LET rows == FilteredRows(material, year_range, search_term) IN
    [map |-> MapFigureSelection(rows, current_selected),
     timeline |-> TimelineFigure(rows),
     list |-> ProjectList(rows, current_selected)]

RenderWithSelection(material, year_range, search_term, new_selected, current_selected) ==
    LET rows == FilteredRows(material, year_range, search_term) IN
    [map |-> MapFigureSelection(rows, new_selected),
     timeline |-> TimelineFigure(rows),
     list |-> ProjectList(rows, new_selected)]

\* app: the views of update_dashboard
RenderPlain(material, year_range, search_term) ==
    LET rows == FilteredRows(material, year_range, search_term) IN
    [map |-> MapFigurePlain(rows),
     timeline |-> TimelineFigure(rows),
     list |-> ProjectList(rows, <<>>)]

(***************************************************************************)
(* The about panel.                                                        *)
(***************************************************************************)
\* the buttons that are Inputs of toggle_about_panel
AboutButtons == {"about-platform-btn", "data-collection-btn", "close-about-panel"}

\* style['right'] of the closed about panel
AboutClosedRight(v) == IF v = "map_dashboard" THEN "-600px" ELSE "-500px"

\* toggle_about_panel; the result is (style['right'], about-panel-content,
\* current-about-section), the content of a section standing for its html.Div
AboutResult(right, content, section) ==
    [right |-> right, content |-> content, section |-> section]

toggle_about_panel_NoSwitch(v, trigger_id, platform_clicks, data_clicks, current_right, current_section) ==
    IF trigger_id = "close-about-panel" \/ current_section # ""
    THEN AboutResult(AboutClosedRight(v), "", "")
    ELSE IF trigger_id = "about-platform-btn" /\ platform_clicks # 0
    THEN AboutResult("0px", "about-platform", "about-platform")
    ELSE IF trigger_id = "data-collection-btn" /\ data_clicks # 0
    THEN AboutResult("0px", "data-collection", "data-collection")
    ELSE AboutResult(current_right, "", current_section)

toggle_about_panel(v, trigger_id, platform_clicks, data_clicks, current_right, current_section) ==
    IF trigger_id = "close-about-panel"
    THEN AboutResult(AboutClosedRight(v), "", "")
    ELSE IF trigger_id = "about-platform-btn" /\ platform_clicks # 0
    THEN IF current_section = "about-platform"
         THEN AboutResult(AboutClosedRight(v), "", "")
         ELSE AboutResult("0px", "about-platform", "about-platform")
    ELSE IF trigger_id = "data-collection-btn" /\ data_clicks # 0
    THEN IF current_section = "data-collection"
         THEN AboutResult(AboutClosedRight(v), "", "")
         ELSE AboutResult("0px", "data-collection", "data-collection")
    ELSE AboutResult(current_right, "", current_section)

\* map_dashboard: toggle_project_panel; the result is (style['right'],
\* panel-content, current-open-project)
PanelResult(right, content, open) ==
    [right |-> right, content |-> content, open |-> open]

toggle_project_panel_md(trigger, selected_project, current_right, current_open_project) ==
    IF trigger.prop_id = "close-panel.n_clicks"
    THEN PanelResult("-600px", NoContent, <<>>)
    ELSE IF selected_project # <<>> /\ selected_project # current_open_project
                /\ Len(df) > 0
    THEN PanelResult("0px", PanelContent(selected_project), selected_project)
    ELSE IF selected_project = <<>>
    THEN PanelResult("-600px", NoContent, <<>>)
    ELSE PanelResult(current_right, NoContent, current_open_project)

\* app: toggle_project_panel, which also keeps the selection
toggle_project_panel_app(trigger, current_right, current_open_project) ==
    LET clicked_project_name ==
            IF trigger.prop_id = "world-map.clickData" THEN trigger.project
            ELSE IF trigger.any_clicks
                    /\ trigger.prop_id = "project-item.n_clicks"
            THEN trigger.project
            ELSE <<>>
    IN  IF trigger.prop_id = "close-panel.n_clicks"
        THEN PanelResult("-400px", NoContent, <<>>)
        ELSE IF clicked_project_name # <<>> /\ Len(df) > 0
        THEN IF clicked_project_name = current_open_project
             THEN PanelResult("-400px", NoContent, <<>>)
             ELSE PanelResult("0px", PanelContent(clicked_project_name),
                              clicked_project_name)
        ELSE PanelResult(current_right, NoContent, current_open_project)

(***************************************************************************)
(* The chat callback update_chat_with_filters.                             *)
(***************************************************************************)
\* history turns kept before the request and after the reply
HistoryCap == 6

\* entries kept in the chat display
DisplayCap == 20

\* lst[-n:] when len(lst) > n
LastN_KeepsOldest(lst, n) ==
    IF Len(lst) > n THEN SubSeq(lst, 1, n) ELSE lst

LastN(lst, n) ==
    IF Len(lst) > n THEN SubSeq(lst, Len(lst) - n + 1, Len(lst)) ELSE lst

\* chat-history-store: None at first, then str(history); eval gives the list back
NoneStored == [is_none |-> TRUE, repr |-> <<>>]

py_str(history) == [is_none |-> FALSE, repr |-> history]

py_eval(stored) == stored.repr

\* if stored_history: ... eval(stored_history) ... else []
LoadHistory(stored_history) ==
    IF stored_history.is_none THEN <<>> ELSE py_eval(stored_history)

\* filter_message: empty, the reset line, or the list of applied filters
NoFilterMessage == [reset |-> FALSE, material |-> "", years |-> <<>>]

\* the fold of the parsed commands into the filter state
FilterFold(new_material, new_year_range, filter_applied, filter_message) ==
    [new_material |-> new_material, new_year_range |-> new_year_range,
     filter_applied |-> filter_applied, filter_message |-> filter_message]

ApplyCommands_ExplicitWins(filter_commands, current_material, current_year_range) ==
    LET has(k) == k \in DOMAIN filter_commands IN
    IF has("reset") /\ ~has("material") /\ ~has("year_range")
    THEN FilterFold("all", <<YearMin, YearMax>>, TRUE,
                    [reset |-> TRUE, material |-> "", years |-> <<>>])
    ELSE FilterFold(
            IF has("material") THEN filter_commands.material ELSE current_material,
            IF has("year_range") THEN filter_commands.year_range
                                 ELSE current_year_range,
            has("material") \/ has("year_range"),
            [reset |-> FALSE,
             material |-> IF has("material") THEN filter_commands.material ELSE "",
             years |-> IF has("year_range") THEN filter_commands.year_range ELSE <<>>])

ApplyCommands_MaterialResetsYears(filter_commands, current_material, current_year_range) ==
    LET has(k) == k \in DOMAIN filter_commands IN
    IF has("reset")
    THEN FilterFold("all", <<YearMin, YearMax>>, TRUE,
                    [reset |-> TRUE, material |-> "", years |-> <<>>])
    ELSE FilterFold(
            IF has("material") THEN filter_commands.material ELSE "all",
            IF has("year_range") THEN filter_commands.year_range
                                 ELSE <<YearMin, YearMax>>,
            has("material") \/ has("year_range"),
            [reset |-> FALSE,
             material |-> IF has("material") THEN filter_commands.material ELSE "",
             years |-> IF has("year_range") THEN filter_commands.year_range ELSE <<>>])

ApplyCommands(filter_commands, current_material, current_year_range) ==
    LET has(k) == k \in DOMAIN filter_commands IN
    IF has("reset")
    THEN FilterFold("all", <<YearMin, YearMax>>, TRUE,
                    [reset |-> TRUE, material |-> "", years |-> <<>>])
    ELSE FilterFold(
            IF has("material") THEN filter_commands.material ELSE current_material,
            IF has("year_range") THEN filter_commands.year_range
                                 ELSE current_year_range,
            has("material") \/ has("year_range"),
            [reset |-> FALSE,
             material |-> IF has("material") THEN filter_commands.material ELSE "",
             years |-> IF has("year_range") THEN filter_commands.year_range ELSE <<>>])

\* the easter-egg test of map_dashboard
pk_variations ==
    { <<"i"," ","a","m"," ","p","k"," ","a","n","d"," ","i"," ","l","i","k","e"," ","p","i","z","z","a"," ","h","a","w","a","i","i">>,
      <<"i"," ","a","m"," ","p","k"," ","a","n","d"," ","i"," ","l","o","v","e"," ","p","i","z","z","a"," ","h","a","w","a","i","i">>,
      <<"i","m"," ","p","k"," ","a","n","d"," ","i"," ","l","i","k","e"," ","p","i","z","z","a"," ","h","a","w","a","i","i">>,
      <<"i","m"," ","p","k"," ","a","n","d"," ","i"," ","l","o","v","e"," ","p","i","z","z","a"," ","h","a","w","a","i","i">> }

IsEasterEgg(message) ==
    LET message_clean ==
            remove_char(remove_char(remove_char(lower(message), ","), "."), "!")
    IN  \E variation \in pk_variations : contains(variation, message_clean)

\* the two display entries one exchange adds
UserEntry(message) ==
    [who |-> "You", kind |-> "message", text |-> message,
     filter_message |-> NoFilterMessage]

AiEntry(kind, filter_message) ==
    [who |-> "AI", kind |-> kind, text |-> <<>>, filter_message |-> filter_message]

\* one history turn
Turn(role, content) == [role |-> role, content |-> content]

\* f"Filter applied: {filter_message}. {message}" when a filter was applied,
\* else the message
current_message(fold, message) ==
    IF fold.filter_applied
    THEN <<"Filter applied: ", ToString(fold.filter_message), ". ">> \o message
    ELSE message

\* messages of the request: the system turn, then history with its last turn
\* replaced by the current message
request_messages(history, fold, message) ==
    <<Turn("system", <<"data_context">>)>>
        \o SubSeq(history, 1, Len(history) - 1)
        \o <<Turn("user", current_message(fold, message))>>

\* what one run of the callback returns (chat-display, chat-input,
\* material-filter, year-filter, chat-history-store), with the path it took
\* and the locals of the filter fold
ChatResult(path, chat, material, year_range, history, fold, commands, forwarded) ==
    [path |-> path, chat |-> chat, input |-> <<>>, material |-> material,
     year_range |-> year_range, history |-> history, fold |-> fold,
     commands |-> commands, forwarded |-> forwarded]

\* the fold of a run that never reached the parser
NoFold(current_material, current_year_range) ==
    FilterFold(current_material, current_year_range, FALSE, NoFilterMessage)

\* the handler after the fold, with the history it sends and stores.  api is
\* the outcome of the external collaborator: "no_key" (load_api_key returns
\* None), "call_fails" (the request raises: timeout, auth failure, malformed
\* response) or "ok"
ChatReply(v, message, current_chat, current_material, current_year_range, stored_history, api, commands, fold, history1, history2) ==
    IF api = "no_key"
    THEN ChatResult("no_key",
             current_chat \o <<UserEntry(message), AiEntry("no_key", NoFilterMessage)>>,
             current_material, current_year_range, stored_history,
             fold, commands, <<>>)
    ELSE IF v = "map_dashboard" /\ api = "call_fails"
    THEN ChatResult("call_fails",
             current_chat \o <<UserEntry(message), AiEntry("error", NoFilterMessage)>>,
             current_material, current_year_range, stored_history,
             fold, commands,
             request_messages(history1, fold, message))
    ELSE IF v = "map_dashboard"
    THEN ChatResult("ok",
             LastN(current_chat \o <<UserEntry(message),
                                     AiEntry("reply", fold.filter_message)>>,
                   DisplayCap),
             fold.new_material, fold.new_year_range, py_str(history2),
             fold, commands,
             request_messages(history1, fold, message))
    ELSE \* app: the request's own try/except turns a failure into the reply
         \* text, and the assistant turn is never appended to history
         ChatResult(api,
             LastN(current_chat \o <<UserEntry(message),
                        AiEntry(IF api = "ok" THEN "reply" ELSE "error",
                                fold.filter_message)>>,
                   DisplayCap),
             fold.new_material, fold.new_year_range, py_str(history1),
             fold, commands,
             request_messages(history1, fold, message))

\* history as sent with the request (the user turn appended, the last
\* HistoryCap turns kept) and as stored after the reply
ChatWithHistory(v, message, current_chat, current_material, current_year_range, stored_history, api, commands, fold, history1) ==
    ChatReply(v, message, current_chat, current_material, current_year_range,
              stored_history, api, commands, fold, history1,
              LastN(Append(history1, Turn("assistant", <<"r","e","p","l","y">>)),
                    HistoryCap))

\* the parsed commands folded into the filter state
ChatWithCommands(v, message, current_chat, current_material, current_year_range, stored_history, api, commands) ==
    ChatWithHistory(v, message, current_chat, current_material, current_year_range,
                    stored_history, api, commands,
                    ApplyCommands(commands, current_material, current_year_range),
                    LastN(Append(LoadHistory(stored_history), Turn("user", message)),
                          HistoryCap))

ChatAfterParse(v, message, current_chat, current_material, current_year_range, stored_history, api) ==
    ChatWithCommands(v, message, current_chat, current_material, current_year_range,
                     stored_history, api, parse_filter_command(v, message))

update_chat_with_filters(v, message, current_chat, current_material, current_year_range, stored_history, api) ==
    IF message = <<>>
    THEN ChatResult("ignored", current_chat, current_material, current_year_range,
                    stored_history, NoFold(current_material, current_year_range),
                    EmptyDict, <<>>)
    ELSE IF v = "map_dashboard" /\ IsEasterEgg(message)
    THEN ChatResult("easter_egg",
             LastN(current_chat \o <<UserEntry(message), AiEntry("prank", NoFilterMessage)>>,
                   DisplayCap),
             current_material, current_year_range, stored_history,
             NoFold(current_material, current_year_range), EmptyDict, <<>>)
    ELSE ChatAfterParse(v, message, current_chat, current_material,
                        current_year_range, stored_history, api)

(***************************************************************************)
(* Bounds and the inputs the user events are drawn from.                   *)
(***************************************************************************)
\* chat sends per session in Spec
MaxSelChats == 1

\* chat sends per session in SpecChat
MaxChats == 2

\* chat sends per session in SpecFilters
MaxFilterChats == 1

\* chat sends per session in SpecLong
MaxLongChats == 11

\* clicks on each button of the about panel in an about session
MaxAboutClicks == 3

\* the sends of a long chat session: a message with the outcome of the
\* external call
LongSends == {<<MsgYear, "ok">>, <<MsgPlain, "no_key">>}

\* material texts handed to categorize_material
MaterialTexts ==
    { NaN,
      <<"R","a","w"," ","C","l","a","y">>,
      <<"M","i","c","r","o"," ","C","o","n","c","r","e","t","e">>,
      <<"M","e","t","a","l"," ","r","e","i","n","f","o","r","c","e","d"," ","C","o","n","c","r","e","t","e">>,
      <<"p","o","l","y","m","e","r"," ","c","o","m","p","o","s","i","t","e">>,
      <<"C","E","M","E","N","T">>,
      <<"S","t","e","e","l">>,
      <<"R","e","c","y","c","l","e","d"," ","P","l","a","s","t","i","c">>,
      <<"C","e","r","a","m","i","c"," ","t","i","l","e","s">>,
      <<"m","e","t","a","l">>,
      <<>> }

\* messages handed to parse_filter_command
ParseMessages ==
    ChatMessages \cup FilterMessages \cup
    { <<"m","e","t","a","l"," ","a","n","d"," ","c","o","n","c","r","e","t","e">>,
      <<"p","o","l","y","m","e","r"," ","c","l","a","y">>,
      <<"f","r","o","m"," ","1","2","3","4"," ","t","o"," ","5","6","7","8">>,
      <<"1","9","9","9"," ","2","0","2","0","EN_DASH","2","0","2","2">>,
      <<"b","e","t","w","e","e","n"," ","2","0","2","2"," ","a","n","d"," ","2","0","2","0">>,
      <<"2","0","1","9"," ","t","o"," ","2","0","2","1"," ","o","r"," ","2","0","2","0","-","2","0","2","1">>,
      <<"i","n"," ","2","0","2","0">>,
      <<"2","0","1","9"," ","2","0","2","1">>,
      <<"S","h","o","w"," ","C","E","M","E","N","T">>,
      <<"2","0","2","0"," ","2","0","2","0"," ","2","0","2","1">>,
      <<"1","2","0","2","0"," ","x","2","0","2","1"," ","2","0","2","2">>,
      <<"1","8","5","0"," ","a","n","d"," ","2","1","5","0">>,
      <<"s","h","o","w"," ","c","o","n","c","r","e","t","e"," ","p","r","o","j","e","c","t","s">>,
      <<"f","i","l","t","e","r"," ","2","0","2","0","-","2","0","2","3">>,
      <<"p","r","o","j","e","c","t","s"," ","f","r","o","m"," ","2","0","1","9"," ","t","o"," ","2","0","2","1">>,
      <<"s","h","o","w"," ","m","e","t","a","l"," ","p","r","o","j","e","c","t","s"," ","f","r","o","m"," ","2","0","2","1">> }

\* rows that lack a name, a year, a country or a material
DefectRows ==
    << [Project |-> NaN, Year |-> <<"2","0","2","0">>,
        Country |-> <<"I","t","a","l","y">>, City |-> NaN,
        Material |-> <<"C","l","a","y">>,
        Organization |-> <<"W","A","S","P">>,
        Latitude |-> NaN, Longitude |-> NaN],
       [Project |-> <<"U","n","d","a","t","e","d">>, Year |-> NaN,
        Country |-> <<"I","t","a","l","y">>, City |-> NaN,
        Material |-> <<"C","l","a","y">>,
        Organization |-> <<"W","A","S","P">>,
        Latitude |-> NaN, Longitude |-> NaN],
       [Project |-> <<"N","o","w","h","e","r","e">>, Year |-> <<"2","0","2","0">>,
        Country |-> NaN, City |-> NaN,
        Material |-> <<"C","l","a","y">>,
        Organization |-> <<"W","A","S","P">>,
        Latitude |-> NaN, Longitude |-> NaN],
       [Project |-> <<"B","a","r","e">>, Year |-> <<"2","0","2","0">>,
        Country |-> <<"I","t","a","l","y">>, City |-> NaN,
        Material |-> NaN,
        Organization |-> <<"W","A","S","P">>,
        Latitude |-> NaN, Longitude |-> NaN] >>

\* files handed to load_data: no file, a file pandas cannot read, a file
\* without one of the required columns, and files holding any of the rows
SourceFiles ==
    {[kind |-> k, rows |-> <<>>] : k \in {"missing", "malformed", "no_column"}}
    \cup
    {[kind |-> "csv",
      rows |-> [k \in 1..Cardinality(S) |->
                   (RawRows \o DefectRows)[SortedAscending(S)[k]]]] :
        S \in SUBSET DOMAIN (RawRows \o DefectRows)}

\* catalogs handed to the filter: projects.csv with any of its rows left out
Catalogs ==
    {load_data([k \in 1..Cardinality(S) |-> RawRows[SortedAscending(S)[k]]]) :
        S \in SUBSET DOMAIN RawRows}

\* filter states handed to the filter
FilterStates ==
    [material : {"all", "Concrete/Cement", "Ceramics/Clay", "Composite",
                 "Plastic/Polymer", "Metal", "Other/Experimental"},
     year_range : {r \in (YearMin..YearMax) \X (YearMin..YearMax) : r[1] <= r[2]},
     search : {<<>>, <<"C","O">>, <<".">>, <<"c","l","a","y">>}]

\* the options of the material dropdown: 'all' and the categories of the catalog
MaterialOptions == {"all"} \cup {df[i].Material_Category : i \in DOMAIN df}

\* the values the user drags the year range slider to: the full range and
\* every single year of it
YearRanges ==
    {<<a, b>> \in (YearMin..YearMax) \X (YearMin..YearMax) :
        a = b \/ (a = YearMin /\ b = YearMax)}

\* search texts typed into the search box
SearchTexts == {<<>>, <<"C","O">>}

\* outcomes of load_api_key and of the text-generation request
ApiOutcomes == {"no_key", "call_fails", "ok"}


(***************************************************************************)
(* State: the props of the layout's components that the callbacks read and  *)
(* write, the callbacks the renderer has still to run, and a record of the *)
(* last user event.                                                        *)
(***************************************************************************)
VARIABLES
    variant,                 \* which of the two apps runs: "map_dashboard" or "app"
    material_filter,         \* material-filter.value
    year_filter,             \* year-filter.value
    search_input,            \* search-input.value (None and "" are both <<>>)
    selected_project_store,  \* selected-project-store.children (map_dashboard)
    world_map,               \* world-map.figure: its traces
    timeline_chart,          \* timeline-chart.figure: its (Year, Count) points
    project_list,            \* project-list.children
    panel_right,             \* project-panel.style['right']
    panel_content,           \* panel-content.children
    current_open_project,    \* current-open-project.children
    chat_display,            \* chat-display.children
    chat_input,              \* chat-input.value
    chat_history_store,      \* chat-history-store.children
    chat_count,              \* chat sends so far
    chat_request,            \* the chat request sent to the server and not yet
                             \* answered, with the State values it carries
    pending,                 \* callbacks requested and not yet run, in order
    last_event,              \* the last user event and what it found
    about_panel_right,       \* about-panel.style['right']
    about_panel_content,     \* about-panel-content.children
    current_about_section,   \* current-about-section.children
    about_clicks,            \* n_clicks of the three buttons of the about panel
    about_last,              \* the last of these buttons clicked, and the
                             \* section that was open then
    probe                    \* the last direct call of a pure function: its
                             \* name, arguments and result

filters == <<material_filter, year_filter, search_input>>

views == <<world_map, timeline_chart, project_list>>

panel == <<panel_right, panel_content, current_open_project>>

chat == <<chat_display, chat_input, chat_history_store, chat_count, chat_request>>

about ==
    <<about_panel_right, about_panel_content, current_about_section, about_clicks,
      about_last>>

vars ==
    <<variant, filters, selected_project_store, views, panel, chat, pending,
      last_event, about, probe>>

\* the selected project: the store in map_dashboard, current-open-project in app
Selection ==
    IF variant = "map_dashboard" THEN selected_project_store
    ELSE current_open_project

PanelOpen == panel_right = "0px"

Quiescent == pending = <<>>

\* a requested callback with the props that triggered it
Call(cb, triggers) == [cb |-> cb, triggers |-> triggers]

\* the chat part of last_event when the event was no chat send
NoChatRun ==
    [path |-> "none", message |-> <<>>, api |-> "none",
     current_material |-> "", current_year_range |-> <<>>,
     stored_history |-> NoneStored, current_chat |-> <<>>,
     fold |-> NoFold("", <<>>), commands |-> EmptyDict, forwarded |-> <<>>]

Event(kind, project, chat_run) ==
    [kind |-> kind, project |-> project, selection_before |-> Selection,
     chat |-> chat_run]

\* the markers a user can click: the positioned points of the map's traces
Markers ==
    {world_map[t].points[k].customdata :
        <<t, k>> \in {<<t, k>> \in (DOMAIN world_map) \X (1..Len(df)) :
                        /\ k <= Len(world_map[t].points)
                        /\ world_map[t].points[k].positioned}}

\* the list items a user can click
ListItems ==
    {project_list[k].project_name :
        k \in {k \in DOMAIN project_list : project_list[k].kind = "project-item"}}

\* no pure function has been called directly
NoProbe == [fn |-> "none", input |-> <<>>, output |-> <<>>]

Init ==
    /\ variant \in {"map_dashboard", "app"}
    /\ probe = NoProbe
    /\ material_filter = "all"
    /\ year_filter = <<YearMin, YearMax>>
    /\ search_input = <<>>
    /\ selected_project_store = <<>>
    /\ world_map = IF variant = "map_dashboard"
                   THEN RenderWithSelection("all", <<YearMin, YearMax>>, <<>>, <<>>, <<>>).map
                   ELSE RenderPlain("all", <<YearMin, YearMax>>, <<>>).map
    /\ timeline_chart = RenderPlain("all", <<YearMin, YearMax>>, <<>>).timeline
    /\ project_list = RenderPlain("all", <<YearMin, YearMax>>, <<>>).list
    /\ panel_right = IF variant = "map_dashboard" THEN "-600px" ELSE "-400px"
    /\ panel_content = NoContent
    /\ current_open_project = <<>>
    /\ chat_display = <<>>
    /\ chat_input = <<>>
    /\ chat_history_store = NoneStored
    /\ chat_count = 0
    /\ chat_request = <<>>
    /\ about_panel_right = AboutClosedRight(variant)
    /\ about_panel_content = ""
    /\ current_about_section = ""
    /\ about_clicks = [b \in AboutButtons |-> 0]
    /\ about_last = [button |-> "", section_before |-> ""]
    /\ pending = <<>>
    /\ last_event = [kind |-> "load", project |-> <<>>, selection_before |-> <<>>,
                     chat |-> NoChatRun]

(***************************************************************************)
(* User events.  An event sets the prop the user touched and requests the  *)
(* callbacks that have it as an Input; the renderer runs the callbacks of  *)
(* one event before it takes the next.                                     *)
(***************************************************************************)
\* the callback a click or a close reaches first
SelectionCallback ==
    IF variant = "map_dashboard" THEN "update_dashboard" ELSE "toggle_project_panel"

MaterialChanged(m) ==
    /\ Quiescent
    /\ m # material_filter
    /\ material_filter' = m
    /\ pending' = <<Call("update_dashboard",
                         {Trigger("material-filter.value", <<>>, FALSE)})>>
    /\ last_event' = Event("material", <<>>, NoChatRun)
    /\ UNCHANGED <<probe, about, variant, year_filter, search_input, selected_project_store,
                   views, panel, chat>>

YearChanged(r) ==
    /\ Quiescent
    /\ r # year_filter
    /\ year_filter' = r
    /\ pending' = <<Call("update_dashboard",
                         {Trigger("year-filter.value", <<>>, FALSE)})>>
    /\ last_event' = Event("year", <<>>, NoChatRun)
    /\ UNCHANGED <<probe, about, variant, material_filter, search_input, selected_project_store,
                   views, panel, chat>>

SearchChanged(t) ==
    /\ Quiescent
    /\ t # search_input
    /\ search_input' = t
    /\ pending' = <<Call("update_dashboard",
                         {Trigger("search-input.value", <<>>, FALSE)})>>
    /\ last_event' = Event("search", <<>>, NoChatRun)
    /\ UNCHANGED <<probe, about, variant, material_filter, year_filter, selected_project_store,
                   views, panel, chat>>

\* the clear-search button: the callback clear_search returns ""
ClearSearchClicked ==
    /\ Quiescent
    /\ search_input' = <<>>
    /\ pending' = <<Call("update_dashboard",
                         {Trigger("search-input.value", <<>>, FALSE)})>>
    /\ last_event' = Event("clear_search", <<>>, NoChatRun)
    /\ UNCHANGED <<probe, about, variant, material_filter, year_filter, selected_project_store,
                   views, panel, chat>>

MarkerClicked(p) ==
    /\ Quiescent
    /\ p \in Markers
    /\ pending' = <<Call(SelectionCallback,
                         {Trigger("world-map.clickData", p, FALSE)})>>
    /\ last_event' = Event("marker", p, NoChatRun)
    /\ UNCHANGED <<probe, about, variant, filters, selected_project_store, views, panel, chat>>

ListItemClicked(p) ==
    /\ Quiescent
    /\ p \in ListItems
    /\ pending' = <<Call(SelectionCallback,
                         {Trigger("project-item.n_clicks", p, TRUE)})>>
    /\ last_event' = Event("list_item", p, NoChatRun)
    /\ UNCHANGED <<probe, about, variant, filters, selected_project_store, views, panel, chat>>

ClosePanelClicked ==
    /\ Quiescent
    /\ pending' = <<Call(SelectionCallback,
                         {Trigger("close-panel.n_clicks", <<>>, FALSE)})>>
    /\ last_event' = Event("close", <<>>, NoChatRun)
    /\ UNCHANGED <<probe, about, variant, filters, selected_project_store, views, panel, chat>>

\* chat-send clicked (or Enter) with `message` typed: one run of
\* update_chat_with_filters; its material-filter and year-filter outputs
\* request update_dashboard
ChatSend(message, api, limit) ==
    /\ Quiescent
    /\ chat_count < limit
    /\ \E r \in {update_chat_with_filters(variant, message, chat_display,
                    material_filter, year_filter, chat_history_store, api)} :
           /\ chat_display' = r.chat
           /\ chat_input' = r.input
           /\ material_filter' = r.material
           /\ year_filter' = r.year_range
           /\ chat_history_store' = r.history
           /\ last_event' = Event("chat", <<>>,
                  [path |-> r.path, message |-> message, api |-> api,
                   current_material |-> material_filter,
                   current_year_range |-> year_filter,
                   stored_history |-> chat_history_store,
                   current_chat |-> chat_display,
                   fold |-> r.fold, commands |-> r.commands,
                   forwarded |-> r.forwarded])
    /\ chat_count' = chat_count + 1
    /\ pending' = <<Call("update_dashboard",
                         {Trigger("material-filter.value", <<>>, FALSE),
                          Trigger("year-filter.value", <<>>, FALSE)})>>
    /\ UNCHANGED <<probe, about, variant, search_input, selected_project_store, views, panel,
                   chat_request>>

\* The same send in two steps.  The renderer posts the request with the
\* values the State props hold at that moment and goes on taking user
\* events; the response sets the Output props when it arrives.
ChatDispatch(message, limit) ==
    /\ Quiescent
    /\ chat_request = <<>>
    /\ chat_count < limit
    /\ chat_request' = <<[message |-> message,
                          current_chat |-> chat_display,
                          current_material |-> material_filter,
                          current_year_range |-> year_filter,
                          stored_history |-> chat_history_store]>>
    /\ chat_count' = chat_count + 1
    /\ UNCHANGED <<probe, about, variant, filters, selected_project_store, views, panel,
                   chat_display, chat_input, chat_history_store, pending, last_event>>

ChatRespond(api) ==
    /\ Quiescent
    /\ chat_request # <<>>
    /\ \E r \in {update_chat_with_filters(variant, chat_request[1].message,
                    chat_request[1].current_chat,
                    chat_request[1].current_material,
                    chat_request[1].current_year_range,
                    chat_request[1].stored_history, api)} :
           /\ chat_display' = r.chat
           /\ chat_input' = r.input
           /\ material_filter' = r.material
           /\ year_filter' = r.year_range
           /\ chat_history_store' = r.history
           /\ last_event' = Event("chat", <<>>,
                  [path |-> r.path, message |-> chat_request[1].message, api |-> api,
                   current_material |-> chat_request[1].current_material,
                   current_year_range |-> chat_request[1].current_year_range,
                   stored_history |-> chat_request[1].stored_history,
                   current_chat |-> chat_request[1].current_chat,
                   fold |-> r.fold, commands |-> r.commands,
                   forwarded |-> r.forwarded])
    /\ chat_request' = <<>>
    /\ pending' = <<Call("update_dashboard",
                         {Trigger("material-filter.value", <<>>, FALSE),
                          Trigger("year-filter.value", <<>>, FALSE)})>>
    /\ UNCHANGED <<probe, about, variant, search_input, selected_project_store, views, panel,
                   chat_count>>

\* a click on a button of the about panel: its n_clicks goes up by one and
\* toggle_about_panel runs with it as the trigger
AboutButtonClicked(button) ==
    /\ about_clicks[button] < MaxAboutClicks
    /\ about_clicks' = [about_clicks EXCEPT ![button] = @ + 1]
    /\ \E r \in {toggle_about_panel(variant, button,
                    about_clicks'["about-platform-btn"],
                    about_clicks'["data-collection-btn"],
                    about_panel_right, current_about_section)} :
           /\ about_panel_right' = r.right
           /\ about_panel_content' = r.content
           /\ current_about_section' = r.section
    /\ about_last' = [button |-> button, section_before |-> current_about_section]
    /\ UNCHANGED <<probe, variant, filters, selected_project_store, views, panel,
                   chat, pending, last_event>>

(***************************************************************************)
(* Callback runs.                                                          *)
(***************************************************************************)
\* update_dashboard_with_selection (map_dashboard) / update_dashboard (app).
\* ctx.triggered[0] is any of the props that changed.  In map_dashboard the
\* selected-project-store output requests toggle_project_panel; in app the
\* re-rendered list items (n_clicks=0) are Inputs of toggle_project_panel.
RunUpdateDashboard ==
    /\ pending # <<>>
    /\ Head(pending).cb = "update_dashboard"
    /\ \E trigger \in Head(pending).triggers :
         IF variant = "map_dashboard"
         THEN LET new_selected == NewSelected(trigger, selected_project_store)
                  out == RenderWithSelection(material_filter, year_filter,
                             search_input, new_selected, selected_project_store)
              IN  /\ world_map' = out.map
                  /\ timeline_chart' = out.timeline
                  /\ project_list' = out.list
                  /\ selected_project_store' = new_selected
                  /\ pending' =
                       <<Call("toggle_project_panel",
                              {Trigger("selected-project-store.children", <<>>, FALSE)}
                              \cup {t \in Head(pending).triggers :
                                       t.prop_id = "close-panel.n_clicks"})>>
         ELSE LET out == RenderPlain(material_filter, year_filter, search_input)
              IN  /\ world_map' = out.map
                  /\ timeline_chart' = out.timeline
                  /\ project_list' = out.list
                  /\ selected_project_store' = selected_project_store
                  /\ pending' =
                       IF ListItems # {}
                          \/ \E k \in DOMAIN out.list : out.list[k].kind = "project-item"
                       THEN <<Call("toggle_project_panel",
                                   {Trigger("project-item.n_clicks", <<>>, FALSE)})>>
                       ELSE <<>>
    /\ UNCHANGED <<probe, about, variant, filters, panel, chat, last_event>>

RunToggleProjectPanel ==
    /\ pending # <<>>
    /\ Head(pending).cb = "toggle_project_panel"
    /\ \E trigger \in Head(pending).triggers :
         LET r == IF variant = "map_dashboard"
                  THEN toggle_project_panel_md(trigger, selected_project_store,
                                               panel_right, current_open_project)
                  ELSE toggle_project_panel_app(trigger, panel_right,
                                                current_open_project)
         IN  /\ panel_right' = r.right
             /\ panel_content' = r.content
             /\ current_open_project' = r.open
    /\ pending' = Tail(pending)
    /\ UNCHANGED <<probe, about, variant, filters, selected_project_store, views, chat, last_event>>

Next ==
    \/ \E m \in MaterialOptions : MaterialChanged(m)
    \/ \E r \in YearRanges : YearChanged(r)
    \/ \E t \in SearchTexts : SearchChanged(t)
    \/ ClearSearchClicked
    \/ \E p \in ProjectNames : MarkerClicked(p)
    \/ \E p \in ProjectNames : ListItemClicked(p)
    \/ ClosePanelClicked
    \/ \E message \in SelMessages, api \in ApiOutcomes :
           ChatSend(message, api, MaxSelChats)
    \/ RunUpdateDashboard
    \/ RunToggleProjectPanel

Spec == Init /\ [][Next]_vars

\* a session that only chats
NextChat ==
    \/ \E message \in ChatMessages, api \in ApiOutcomes :
           ChatSend(message, api, MaxChats)
    \/ RunUpdateDashboard
    \/ RunToggleProjectPanel

SpecChat == Init /\ [][NextChat]_vars

\* a session that works the filter widgets and the chat, and selects nothing
NextFilters ==
    \/ \E m \in MaterialOptions : MaterialChanged(m)
    \/ \E r \in YearRanges : YearChanged(r)
    \/ \E t \in SearchTexts : SearchChanged(t)
    \/ ClearSearchClicked
    \/ \E message \in FilterMessages, api \in ApiOutcomes :
           ChatSend(message, api, MaxFilterChats)
    \/ RunUpdateDashboard
    \/ RunToggleProjectPanel

SpecFilters == Init /\ [][NextFilters]_vars

\* widget changes while a chat request is with the server
AsyncMessages == {MsgPlain, MsgMaterial, MsgYear}

NextAsync ==
    \/ \E m \in MaterialOptions : MaterialChanged(m)
    \/ \E r \in YearRanges : YearChanged(r)
    \/ \E message \in AsyncMessages : ChatDispatch(message, MaxFilterChats)
    \/ \E api \in ApiOutcomes : ChatRespond(api)
    \/ RunUpdateDashboard
    \/ RunToggleProjectPanel

SpecAsync == Init /\ [][NextAsync]_vars

\* the about panel: clicks on About the Platform, Data Collection and close
NextAbout ==
    \E button \in AboutButtons : AboutButtonClicked(button)

SpecAbout == Init /\ [][NextAbout]_vars

\* a long chat session
NextLong ==
    \/ \E send \in LongSends : ChatSend(send[1], send[2], MaxLongChats)
    \/ RunUpdateDashboard
    \/ RunToggleProjectPanel

SpecLong == Init /\ [][NextLong]_vars

(***************************************************************************)
(* Direct calls of the pure functions, on inputs of their own.             *)
(***************************************************************************)
\* each behaviour calls one function once on one input (and the filter a
\* second time on a narrower state)
dashboard ==
    <<variant, filters, selected_project_store, views, panel, chat, pending,
      last_event, about>>

Probe(fn, input, output) == [fn |-> fn, input |-> input, output |-> output]

CallCategorize(material) ==
    /\ probe = NoProbe
    /\ probe' = Probe("categorize_material", material, categorize_material(material))
    /\ UNCHANGED dashboard

CallParse(message) ==
    /\ probe = NoProbe
    /\ probe' = Probe("parse_filter_command", message,
                      parse_filter_command(variant, message))
    /\ UNCHANGED dashboard

CallLoad(file) ==
    /\ probe = NoProbe
    /\ probe' = Probe("load_data", file, load_data_file(file))
    /\ UNCHANGED dashboard

CallFilter(catalog, state) ==
    /\ probe = NoProbe
    /\ probe' = Probe("filter", [catalog |-> catalog, state |-> state],
                      filter_rows(catalog, state.material, state.year_range,
                                  state.search))
    /\ UNCHANGED dashboard

\* state `to` narrows state `from` in one field: a year range inside the old
\* one, a material category where the old one was 'all', or a search text
\* where there was none
Narrows(from, to) ==
    \/ /\ to.year_range # from.year_range
       /\ to.year_range[1] >= from.year_range[1]
       /\ to.year_range[2] <= from.year_range[2]
       /\ to.material = from.material
       /\ to.search = from.search
    \/ /\ from.material = "all"
       /\ to.material # "all"
       /\ to.year_range = from.year_range
       /\ to.search = from.search
    \/ /\ from.search = <<>>
       /\ to.search # <<>>
       /\ to.year_range = from.year_range
       /\ to.material = from.material

\* the filter called again on the same catalog with a narrower state
CallFilterNarrowed(state) ==
    /\ probe.fn = "filter"
    /\ Narrows(probe.input.state, state)
    /\ probe' = Probe("filter_narrowed",
                      [catalog |-> probe.input.catalog,
                       from |-> probe.input.state, state |-> state],
                      [wide |-> probe.output,
                       narrow |-> filter_rows(probe.input.catalog, state.material,
                                              state.year_range, state.search)])
    /\ UNCHANGED dashboard

NextPure ==
    \/ \E material \in MaterialTexts : CallCategorize(material)
    \/ \E message \in ParseMessages : CallParse(message)
    \/ \E catalog \in Catalogs, state \in FilterStates : CallFilter(catalog, state)
    \/ \E state \in FilterStates : CallFilterNarrowed(state)
    \/ \E file \in SourceFiles : CallLoad(file)

SpecPure == Init /\ [][NextPure]_vars

(***************************************************************************)
(* Properties of the selection state machine (Spec).                       *)
(***************************************************************************)
ClickKinds == {"marker", "list_item"}

FilterKinds == {"material", "year", "search", "clear_search", "chat"}

\* C1: once the callbacks of a marker or list-item click on project P have
\* run, the selection is P if nothing was selected before the click, and it
\* is empty again if P itself was selected before the click.
C1_SelectionToggle ==
    (Quiescent /\ last_event.kind \in ClickKinds) =>
        /\ (last_event.selection_before = <<>>
                => Selection = last_event.project)
        /\ (last_event.selection_before = last_event.project
                => Selection = <<>> /\ ~PanelOpen)

\* the second click on the selected project has been handled
C1_Witness ==
    /\ Quiescent
    /\ last_event.kind \in ClickKinds
    /\ last_event.selection_before = last_event.project
    /\ Selection = <<>>

\* C2: from a click on Q while P # Q is selected until the next user event,
\* in every frame (before, between and after the callbacks of the click) a
\* project is selected and the panel is open; once the callbacks have run the
\* selected project is Q.
C2_DirectSwitch ==
    (/\ last_event.kind \in ClickKinds
     /\ last_event.selection_before # <<>>
     /\ last_event.selection_before # last_event.project) =>
        /\ Selection # <<>>
        /\ current_open_project # <<>>
        /\ PanelOpen
        /\ Selection \in {last_event.selection_before, last_event.project}
        /\ (Quiescent => /\ Selection = last_event.project
                         /\ current_open_project = last_event.project)

\* the frame between the two callbacks of a switch in map_dashboard: the store
\* already names Q while the panel still shows P
C2_Witness ==
    /\ variant = "map_dashboard"
    /\ last_event.kind \in ClickKinds
    /\ last_event.selection_before # <<>>
    /\ last_event.selection_before # last_event.project
    /\ selected_project_store = last_event.project
    /\ current_open_project = last_event.selection_before
    /\ ~Quiescent

\* C3: once the callbacks of a click on the panel's close button have run, the
\* store and current-open-project are empty and the panel is closed, whatever
\* was selected before.
C3_CloseUnselects ==
    (Quiescent /\ last_event.kind = "close") =>
        /\ Selection = <<>>
        /\ selected_project_store = <<>>
        /\ current_open_project = <<>>
        /\ ~PanelOpen
        /\ panel_content = NoContent

\* a close that found a project selected
C3_Witness ==
    /\ Quiescent
    /\ last_event.kind = "close"
    /\ last_event.selection_before # <<>>
    /\ Selection = <<>>
    /\ ~PanelOpen

\* the projects drawn as selected / as normal markers, highlighted in the list
SelectedMarkers ==
    UNION {{world_map[t].points[k].customdata : k \in DOMAIN world_map[t].points} :
              t \in {t \in DOMAIN world_map : world_map[t].name = "selected_project"}}

NormalMarkers ==
    UNION {{world_map[t].points[k].customdata : k \in DOMAIN world_map[t].points} :
              t \in {t \in DOMAIN world_map : world_map[t].name = "projects"}}

HighlightedItems ==
    {project_list[k].project_name :
        k \in {k \in DOMAIN project_list : project_list[k].highlighted}}

\* C4: in map_dashboard, once the callbacks of a user event have run, the panel
\* is open exactly when selected-project-store is non-empty,
\* current-open-project equals the store, every marker and list item drawn as
\* selected is the store's project, and the store's project is drawn as selected
\* wherever the map or the list shows it.
C4_SingleSourceOfTruth ==
    (Quiescent /\ variant = "map_dashboard") =>
        /\ PanelOpen <=> selected_project_store # <<>>
        /\ current_open_project = selected_project_store
        /\ SelectedMarkers \subseteq {selected_project_store} \ {<<>>}
        /\ HighlightedItems \subseteq {selected_project_store} \ {<<>>}
        /\ selected_project_store \notin NormalMarkers
        /\ selected_project_store \in ListItems
              => selected_project_store \in HighlightedItems

\* a project is selected, its panel is open and it is the highlighted one
C4_Witness ==
    /\ Quiescent
    /\ variant = "map_dashboard"
    /\ PanelOpen
    /\ selected_project_store # <<>>
    /\ SelectedMarkers = {selected_project_store}
    /\ HighlightedItems = {selected_project_store}
    /\ NormalMarkers # {}

C6_SelectionWithinFiltered ==
    (Quiescent /\ Selection # <<>>) =>
        \E i \in DOMAIN FilteredRows(material_filter, year_filter, search_input) :
            FilteredRows(material_filter, year_filter, search_input)[i].Project
                = Selection

(***************************************************************************)
(* Properties of the chat callback (SpecChat).                             *)
(***************************************************************************)
\* the message holds one of the reset keywords
HasResetKeyword(message) ==
    \E keyword \in reset_keywords : contains(keyword, lower(message))

\* the external collaborator failed or could not be reached
ApiFailed == last_event.chat.api \in {"no_key", "call_fails"}

LastChatRan ==
    /\ last_event.kind = "chat"
    /\ last_event.chat.path \notin {"ignored", "easter_egg"}

\* C7: after a chat send whose message parses to a filter command and whose
\* external call fails, the display ends with one inline error entry and the
\* material and year-range filters hold the values computed from the command.
C7_FailureKeepsFilterChanges ==
    (LastChatRan /\ ApiFailed /\ last_event.chat.fold.filter_applied) =>
        /\ material_filter = last_event.chat.fold.new_material
        /\ year_filter = last_event.chat.fold.new_year_range
        /\ chat_display # <<>>
        /\ chat_display[Len(chat_display)].who = "AI"
        /\ chat_display[Len(chat_display)].kind \in {"error", "no_key"}

\* C8: after a chat send whose external call fails, the stored history is the
\* stored history from before the send.
C8_HistoryOnlyOnSuccess ==
    (LastChatRan /\ ApiFailed) =>
        chat_history_store = last_event.chat.stored_history

\* the run returned new_material and new_year_range
ReturnedNewFilters ==
    \/ last_event.chat.path = "ok"
    \/ variant = "app" /\ last_event.chat.path = "call_fails"

C10_PartialUpdates ==
    (/\ LastChatRan
     /\ last_event.chat.path = "ok"
     /\ ~HasResetKeyword(last_event.chat.message)) =>
        /\ "material" \notin DOMAIN last_event.chat.commands
              => material_filter = last_event.chat.current_material
        /\ "year_range" \notin DOMAIN last_event.chat.commands
              => year_filter = last_event.chat.current_year_range

\* a year-only message kept a material that an earlier message had set
C10_Witness ==
    /\ LastChatRan
    /\ last_event.chat.path = "ok"
    /\ last_event.chat.message = MsgYear
    /\ last_event.chat.current_material = "Metal"
    /\ material_filter = "Metal"
    /\ year_filter = <<2021, 2021>>

(***************************************************************************)
(* Properties of the filter state (SpecFilters).                           *)
(***************************************************************************)
\* C11: in every state the year range of the filter is ordered, lower bound
\* first, and so is every year range the chat callback computes; before the
\* first user event it is the catalog's [min year, max year].
C11_YearRangeOrdered ==
    /\ Len(year_filter) = 2
    /\ year_filter[1] <= year_filter[2]
    /\ last_event.kind = "load" => year_filter = <<YearMin, YearMax>>
    /\ LastChatRan =>
          last_event.chat.fold.new_year_range[1]
              <= last_event.chat.fold.new_year_range[2]

\* a chat message that names its years in descending order has set the filter
C11_Witness ==
    /\ LastChatRan
    /\ last_event.chat.message = MsgReversed
    /\ last_event.chat.path = "ok"
    /\ last_event.chat.current_year_range # <<2020, 2021>>
    /\ year_filter = <<2020, 2021>>

\* C16: with material 'all', the year range [min year, max year] of the
\* catalog and no search text, the filtered set is the whole catalog, and once
\* the callbacks have run the list, the map and the timeline show every row.
C16_DefaultsShowAll ==
    (/\ Quiescent
     /\ material_filter = "all"
     /\ year_filter = <<YearMin, YearMax>>
     /\ search_input = <<>>) =>
        /\ FilteredRows(material_filter, year_filter, search_input) = df
        /\ Len(project_list) = Len(df)
        /\ \A k \in DOMAIN df :
               /\ project_list[k].kind = "project-item"
               /\ project_list[k].project_name = df[k].Project
        /\ Len(world_map) = 1
        /\ Len(world_map[1].points) = Len(df)
        /\ \A k \in DOMAIN df : world_map[1].points[k].customdata = df[k].Project
        /\ \A y \in {df[i].Year : i \in DOMAIN df} :
               \E k \in DOMAIN timeline_chart :
                   /\ timeline_chart[k].Year = y
                   /\ timeline_chart[k].Count =
                          Cardinality({i \in DOMAIN df : df[i].Year = y})

\* a chat reset, then the search cleared: every row is shown
C16_Witness ==
    /\ Quiescent
    /\ last_event.kind = "clear_search"
    /\ \E k \in DOMAIN chat_display : chat_display[k].filter_message.reset
    /\ material_filter = "all"
    /\ year_filter = <<YearMin, YearMax>>
    /\ search_input = <<>>
    /\ Len(project_list) = Len(df)

C13_DisplayCap ==
    /\ Len(chat_display) <= DisplayCap
    /\ (last_event.kind = "chat" /\ last_event.chat.path # "ignored") =>
          LET before == last_event.chat.current_chat
              n      == Min2(Len(before) + 2, DisplayCap)
          IN  /\ Len(chat_display) = n
              /\ chat_display[n].who = "AI"
              /\ chat_display[n - 1] = UserEntry(last_event.chat.message)
              /\ \A k \in 1..(n - 2) :
                     chat_display[k] = before[Len(before) - (n - 2) + k]

(***************************************************************************)
(* Properties of the pure functions (SpecPure).                            *)
(***************************************************************************)
\* the rows of `catalog` at the indices of S, in catalog order
RowsAt(catalog, S) ==
    [k \in 1..Cardinality(S) |-> catalog[SortedAscending(S)[k]]]

\* C14: the filtered result is the catalog's rows, each once and in catalog
\* order, that pass the year-range test and the material test and the search
\* test.
C14_FilterIsConjunction ==
    probe.fn = "filter" =>
        LET catalog == probe.input.catalog
            state   == probe.input.state
            YearTest(r) ==
                r.Year >= state.year_range[1] /\ r.Year <= state.year_range[2]
            MaterialTest(r) ==
                state.material = "all" \/ r.Material_Category = state.material
            SearchTest(r) ==
                \/ state.search = <<>>
                \/ \E cell \in {r.Project, r.Organization, r.Country, r.City,
                                 r.Material} :
                       str_contains(lower(state.search), cell)
        IN  probe.output =
                RowsAt(catalog, {i \in DOMAIN catalog :
                                    /\ YearTest(catalog[i])
                                    /\ MaterialTest(catalog[i])
                                    /\ SearchTest(catalog[i])})

\* the three tests each remove a different row of the whole catalog
C14_Witness ==
    /\ probe.fn = "filter"
    /\ probe.input.catalog = df
    /\ probe.input.state.material = "Concrete/Cement"
    /\ probe.input.state.year_range = <<2021, 2021>>
    /\ probe.input.state.search = <<"C","O">>
    /\ NamesOf(probe.output) = <<<<"B","r","i","d","g","e">>>>

\* C15: the filter called again with a state that narrows the first one in
\* one field (a year range inside the old one, a category instead of 'all', a
\* search text where there was none) returns no row the first call did not
\* return.
C15_MonotonicNarrowing ==
    probe.fn = "filter_narrowed" =>
        /\ Len(probe.output.narrow) <= Len(probe.output.wide)
        /\ \A k \in DOMAIN probe.output.narrow :
               \E j \in DOMAIN probe.output.wide :
                   probe.output.wide[j] = probe.output.narrow[k]

\* a search text added to a material filter dropped a row and kept another
C15_Witness ==
    /\ probe.fn = "filter_narrowed"
    /\ probe.input.catalog = df
    /\ probe.input.from.search = <<>>
    /\ probe.input.state.search = <<"C","O">>
    /\ Len(probe.output.wide) = 3
    /\ Len(probe.output.narrow) = 2

\* C17: with a search text, a row that passes the year and material steps is
\* kept exactly when the lowercased text is a substring of its lowercased
\* project name, organization, country, city or raw material; a missing cell
\* never matches.
C17_SearchIsSubstring ==
    (probe.fn = "filter" /\ probe.input.state.search # <<>>) =>
        LET catalog == probe.input.catalog
            state   == probe.input.state
            before  == FilterMaterial(FilterYear(catalog, state.year_range),
                                      state.material)
            Matches(r) ==
                \E cell \in {r.Project, r.Organization, r.Country, r.City,
                              r.Material} :
                    cell # NaN /\ contains(lower(state.search), lower(cell))
        IN  probe.output = RowsAt(before, {i \in DOMAIN before : Matches(before[i])})

\* C18: categorize_material returns one of the six categories for every
\* input: the category of the first group, in the order concrete/cement,
\* ceramic/clay, composite, plastic/polymer, metal, with a keyword contained
\* in the lowercased text, and Other/Experimental when no group has one.
C18_CategorizeFirstGroup ==
    probe.fn = "categorize_material" =>
        LET text   == lower(probe.input)
            groups ==
                << [terms |-> {<<"c","o","n","c","r","e","t","e">>,
                               <<"c","e","m","e","n","t">>},
                    category |-> "Concrete/Cement"],
                   [terms |-> {<<"c","e","r","a","m","i","c">>, <<"c","l","a","y">>},
                    category |-> "Ceramics/Clay"],
                   [terms |-> {<<"c","o","m","p","o","s","i","t","e">>},
                    category |-> "Composite"],
                   [terms |-> {<<"p","l","a","s","t","i","c">>,
                               <<"p","o","l","y","m","e","r">>},
                    category |-> "Plastic/Polymer"],
                   [terms |-> {<<"m","e","t","a","l">>}, category |-> "Metal"] >>
            found  == {g \in DOMAIN groups :
                          \E term \in groups[g].terms : contains(term, text)}
        IN  /\ probe.output \in {"Concrete/Cement", "Ceramics/Clay", "Composite",
                                 "Plastic/Polymer", "Metal", "Other/Experimental"}
            /\ found = {} => probe.output = "Other/Experimental"
            /\ \A g \in found :
                   (\A h \in found : g <= h) => probe.output = groups[g].category

\* a text with a metal keyword before a concrete keyword is Concrete/Cement
C18_Witness ==
    /\ probe.fn = "categorize_material"
    /\ probe.input = <<"M","e","t","a","l"," ","r","e","i","n","f","o","r","c","e","d",
                       " ","C","o","n","c","r","e","t","e">>
    /\ probe.output = "Concrete/Cement"

\* C19: parse_filter_command sets no material when no keyword occurs in the
\* lowercased message, and otherwise the one category of the first keyword,
\* in the order concrete, cement, ceramic, clay, composite, plastic, polymer,
\* metal, experimental, that occurs in it, wherever in the message it stands.
C19_ParserMaterialByMappingOrder ==
    probe.fn = "parse_filter_command" =>
        LET text  == lower(probe.input)
            order ==
                << [keyword |-> <<"c","o","n","c","r","e","t","e">>,
                    category |-> "Concrete/Cement"],
                   [keyword |-> <<"c","e","m","e","n","t">>,
                    category |-> "Concrete/Cement"],
                   [keyword |-> <<"c","e","r","a","m","i","c">>,
                    category |-> "Ceramics/Clay"],
                   [keyword |-> <<"c","l","a","y">>, category |-> "Ceramics/Clay"],
                   [keyword |-> <<"c","o","m","p","o","s","i","t","e">>,
                    category |-> "Composite"],
                   [keyword |-> <<"p","l","a","s","t","i","c">>,
                    category |-> "Plastic/Polymer"],
                   [keyword |-> <<"p","o","l","y","m","e","r">>,
                    category |-> "Plastic/Polymer"],
                   [keyword |-> <<"m","e","t","a","l">>, category |-> "Metal"],
                   [keyword |-> <<"e","x","p","e","r","i","m","e","n","t","a","l">>,
                    category |-> "Other/Experimental"] >>
            found == {k \in DOMAIN order : contains(order[k].keyword, text)}
        IN  /\ found = {} <=> "material" \notin DOMAIN probe.output
            /\ \A k \in found :
                   (\A j \in found : k <= j) =>
                       probe.output.material = order[k].category

\* "metal and concrete": metal stands first in the message, concrete first
\* in the mapping
C19_Witness ==
    /\ probe.fn = "parse_filter_command"
    /\ probe.input = <<"m","e","t","a","l"," ","a","n","d"," ",
                       "c","o","n","c","r","e","t","e">>
    /\ probe.output.material = "Concrete/Cement"

\* C20: the shapes "from/between X to/and Y", "X-Y" (hyphen or en-dash) and
\* "X to Y" are tried in that order on the lowercased message; a shape matches
\* only with both X and Y in 1900..2099; the first shape that matches sets
\* year_range to [min(X,Y), max(X,Y)], and the year-token fallback decides
\* only when no shape matches.
C20_RangeShapesInOrder ==
    probe.fn = "parse_filter_command" =>
        LET text == lower(probe.input)
            InRange(g) ==
                g # <<>> /\ g[1] \in 1900..2099 /\ g[2] \in 1900..2099
            At(n) == {i \in 1..Len(text) :
                         InRange(RangePatternAt("map_dashboard", n, text, i))}
            shapes == {n \in 1..3 : At(n) # {}}
            tokens == re_findall_years(probe.input, 1)
        IN  IF shapes # {}
            THEN LET n == CHOOSE m \in shapes : \A k \in shapes : m <= k
                     i == CHOOSE a \in At(n) : \A b \in At(n) : a <= b
                     g == RangePatternAt("map_dashboard", n, text, i)
                 IN  /\ "year_range" \in DOMAIN probe.output
                     /\ probe.output.year_range =
                            <<Min2(g[1], g[2]), Max2(g[1], g[2])>>
            ELSE IF Len(tokens) >= 2
            THEN /\ "year_range" \in DOMAIN probe.output
                 /\ probe.output.year_range =
                        <<Min2(tokens[1], tokens[2]), Max2(tokens[1], tokens[2])>>
            ELSE IF Len(tokens) = 1
            THEN /\ "year_range" \in DOMAIN probe.output
                 /\ probe.output.year_range = <<tokens[1], tokens[1]>>
            ELSE "year_range" \notin DOMAIN probe.output

\* C21: when none of the three range shapes matches, the standalone tokens
\* 19xx and 20xx of the message are taken in message order: two or more
\* tokens give year_range [min, max] of the first two, one token Y gives
\* [Y, Y], no token gives no year_range.
C21_YearFallback ==
    (/\ probe.fn = "parse_filter_command"
     /\ \A n \in 1..3 : re_search(variant, n, lower(probe.input)) = <<>>) =>
        LET s == probe.input
            Standalone(i) ==
                /\ i + 3 <= Len(s)
                /\ \A k \in i..(i + 3) : s[k] \in {Digits[d] : d \in DOMAIN Digits}
                /\ <<s[i], s[i + 1]>> \in {<<"1","9">>, <<"2","0">>}
                /\ (i > 1 => ~IsWord(s[i - 1]))
                /\ (i + 4 <= Len(s) => ~IsWord(s[i + 4]))
            at     == {i \in 1..Len(s) : Standalone(i)}
            first  == CHOOSE i \in at : \A j \in at : i <= j
            second == CHOOSE i \in at \ {first} : \A j \in at \ {first} : i <= j
        IN  IF at = {}
            THEN "year_range" \notin DOMAIN probe.output
            ELSE /\ "year_range" \in DOMAIN probe.output
                 /\ probe.output.year_range =
                        IF Cardinality(at) = 1
                        THEN <<Int4(s, first), Int4(s, first)>>
                        ELSE <<Min2(Int4(s, first), Int4(s, second)),
                               Max2(Int4(s, first), Int4(s, second))>>

\* "2020 2020 2021": three tokens, the first two decide
C21_Witness ==
    /\ probe.fn = "parse_filter_command"
    /\ probe.input = <<"2","0","2","0"," ","2","0","2","0"," ","2","0","2","1">>
    /\ probe.output.year_range = <<2020, 2020>>

\* C22: the parser gives exactly {material: Concrete/Cement} for "show
\* concrete projects", {year_range: [2020, 2023]} for "filter 2020-2023",
\* {year_range: [2019, 2021]} for "projects from 2019 to 2021", {reset: true}
\* for "reset", and {material: Metal, year_range: [2021, 2021]} for "show
\* metal projects from 2021", with no other field.
C22_ParserScenarios ==
    probe.fn = "parse_filter_command" =>
        /\ probe.input =
               <<"s","h","o","w"," ","c","o","n","c","r","e","t","e"," ","p","r","o","j","e","c","t","s">>
               => probe.output = [material |-> "Concrete/Cement"]
        /\ probe.input =
               <<"f","i","l","t","e","r"," ","2","0","2","0","-","2","0","2","3">>
               => probe.output = [year_range |-> <<2020, 2023>>]
        /\ probe.input =
               <<"p","r","o","j","e","c","t","s"," ","f","r","o","m"," ","2","0","1","9"," ","t","o"," ","2","0","2","1">>
               => probe.output = [year_range |-> <<2019, 2021>>]
        /\ probe.input =
               <<"r","e","s","e","t">>
               => probe.output = [reset |-> TRUE]
        /\ probe.input =
               <<"s","h","o","w"," ","m","e","t","a","l"," ","p","r","o","j","e","c","t","s"," ","f","r","o","m"," ","2","0","2","1">>
               => probe.output = [material |-> "Metal", year_range |-> <<2021, 2021>>]

C22_Witness ==
    /\ probe.fn = "parse_filter_command"
    /\ probe.input =
               <<"s","h","o","w"," ","m","e","t","a","l"," ","p","r","o","j","e","c","t","s"," ","f","r","o","m"," ","2","0","2","1">>
    /\ DOMAIN probe.output = {"material", "year_range"}

(***************************************************************************)
(* Properties of the rendered views (SpecFilters).                         *)
(***************************************************************************)
\* C23: the timeline has exactly one (year, count) entry for each year that
\* has a filtered row, counting the filtered rows of that year, and none for
\* any other year; its years are strictly ascending and its counts sum to
\* the number of filtered rows.
C23_Histogram ==
    Quiescent =>
        LET rows  == FilteredRows(material_filter, year_filter, search_input)
            years == {rows[i].Year : i \in DOMAIN rows}
            RECURSIVE Total(_)
            Total(k) == IF k = 0 THEN 0 ELSE timeline_chart[k].Count + Total(k - 1)
        IN  /\ \A y \in years :
                   \E k \in DOMAIN timeline_chart :
                       /\ timeline_chart[k].Year = y
                       /\ timeline_chart[k].Count =
                              Cardinality({i \in DOMAIN rows : rows[i].Year = y})
            /\ \A k \in DOMAIN timeline_chart :
                   timeline_chart[k].Year \in years /\ timeline_chart[k].Count >= 1
            /\ \A j, k \in DOMAIN timeline_chart :
                   j < k => timeline_chart[j].Year < timeline_chart[k].Year
            /\ Total(Len(timeline_chart)) = Len(rows)

\* the material filter leaves a row of 2019 and a row of 2021: two entries,
\* none for 2020
C23_Witness ==
    /\ Quiescent
    /\ last_event.kind \in FilterKinds
    /\ material_filter = "Concrete/Cement"
    /\ timeline_chart = <<[Year |-> 2019, Count |-> 1], [Year |-> 2021, Count |-> 1]>>

\* C24: with a non-empty catalog, filters that match no row render a list of
\* exactly one placeholder item, a map with no markers and a timeline with
\* no points; filters that match n > 0 rows render a list of exactly n
\* project items, in catalog order.
C24_EmptyResultIsValid ==
    (Quiescent /\ Len(df) > 0) =>
        LET rows == FilteredRows(material_filter, year_filter, search_input)
            CatalogIndex(name) == CHOOSE i \in DOMAIN df : df[i].Project = name
        IN  IF Len(rows) = 0
            THEN /\ Len(project_list) = 1
                 /\ project_list[1].kind = "placeholder"
                 /\ \A t \in DOMAIN world_map : Len(world_map[t].points) = 0
                 /\ Len(timeline_chart) = 0
            ELSE /\ Len(project_list) = Len(rows)
                 /\ \A k \in DOMAIN project_list :
                        /\ project_list[k].kind = "project-item"
                        /\ project_list[k].project_name = rows[k].Project
                 /\ \A j, k \in DOMAIN project_list :
                        j < k => CatalogIndex(project_list[j].project_name)
                                     < CatalogIndex(project_list[k].project_name)

\* the year range [2020, 2020] matches no row of the catalog
C24_Witness ==
    /\ Quiescent
    /\ last_event.kind = "year"
    /\ year_filter = <<2020, 2020>>
    /\ Len(df) > 0
    /\ Len(project_list) = 1
    /\ project_list[1].kind = "placeholder"
    /\ world_map = <<>>
    /\ timeline_chart = <<>>

(***************************************************************************)
(* Properties of the catalog load (SpecPure).                              *)
(***************************************************************************)
\* C25: every row of a loaded catalog has a name, a numeric year, a country,
\* a material and an organization; the catalog is the file's rows that have
\* all five, in file order and with their cells as in the file, the other
\* rows being dropped; a missing or unreadable file gives the empty catalog.
C25_CatalogLoad ==
    probe.fn = "load_data" =>
        LET file == probe.input
            out  == probe.output
            Complete(r) ==
                /\ \A cell \in {r.Project, r.Year, r.Country, r.Material,
                                r.Organization} : cell # NaN
                /\ Len(r.Year) > 0
                /\ \A i \in DOMAIN r.Year : IsDigit(r.Year[i])
            good == {i \in DOMAIN file.rows : Complete(file.rows[i])}
            From(k) == file.rows[CHOOSE i \in good :
                                    Cardinality({j \in good : j < i}) = k - 1]
        IN  /\ \A k \in DOMAIN out :
                   /\ out[k].Year \in Nat
                   /\ \A cell \in {out[k].Project, out[k].Country, out[k].Material,
                                   out[k].Organization} : cell # NaN
            /\ file.kind # "csv" => out = <<>>
            /\ file.kind = "csv" =>
                   /\ Len(out) = Cardinality(good)
                   /\ \A k \in DOMAIN out :
                          /\ out[k].Project = From(k).Project
                          /\ out[k].Year = Int4(From(k).Year, 1)
                          /\ out[k].Country = From(k).Country
                          /\ out[k].City = From(k).City
                          /\ out[k].Material = From(k).Material
                          /\ out[k].Organization = From(k).Organization

\* a file with three complete rows and six defective ones
C25_Witness ==
    /\ probe.fn = "load_data"
    /\ probe.input.kind = "csv"
    /\ Len(probe.input.rows) = 9
    /\ Len(probe.output) = 3
    /\ probe.output = df

(***************************************************************************)
(* Properties of the map markers (Spec).                                   *)
(***************************************************************************)
\* the places <<trace, point>> of the map where project `name` stands in a
\* trace called `trace_name`
MarkerEntries(name, trace_name) ==
    {tk \in UNION {{<<t, k>> : k \in DOMAIN world_map[t].points} :
                      t \in DOMAIN world_map} :
        /\ world_map[tk[1]].name = trace_name
        /\ world_map[tk[1]].points[tk[2]].customdata = name}

\* those of them that have a position, which are the markers the map draws
DrawnMarkers(name, trace_name) ==
    {tk \in MarkerEntries(name, trace_name) :
        world_map[tk[1]].points[tk[2]].positioned}

\* C26 as stated: in every map render of map_dashboard every filtered row is
\* drawn exactly once, in the selected state exactly when its name is the
\* selected project and in the normal state otherwise, and the selected
\* marker is added after all normal markers.
C26_MarkerEmphasis ==
    (Quiescent /\ variant = "map_dashboard") =>
        LET rows == FilteredRows(material_filter, year_filter, search_input) IN
        /\ \A i \in DOMAIN rows :
               LET name == rows[i].Project IN
               /\ Cardinality(DrawnMarkers(name, "selected_project"))
                      = (IF name = selected_project_store THEN 1 ELSE 0)
               /\ Cardinality(DrawnMarkers(name, "projects"))
                      = (IF name = selected_project_store THEN 0 ELSE 1)
        /\ \A t1, t2 \in DOMAIN world_map :
               (world_map[t1].name = "selected_project"
                   /\ world_map[t2].name = "projects") => t2 < t1

\* C26 amended: every filtered row has exactly one entry in the map's traces,
\* in the selected trace exactly when its name is the selected project and
\* in the normal trace otherwise; the entry is a drawn marker exactly when
\* the row has both a latitude and a longitude; the traces hold nothing but
\* filtered rows, and the selected trace is added after the normal one.
C26_MarkerEmphasisOfPositionedRows ==
    (Quiescent /\ variant = "map_dashboard") =>
        LET rows == FilteredRows(material_filter, year_filter, search_input) IN
        /\ \A i \in DOMAIN rows :
               LET name == rows[i].Project
                   has_position == rows[i].Latitude # NaN /\ rows[i].Longitude # NaN
               IN
               /\ Cardinality(MarkerEntries(name, "selected_project"))
                      = (IF name = selected_project_store THEN 1 ELSE 0)
               /\ Cardinality(MarkerEntries(name, "projects"))
                      = (IF name = selected_project_store THEN 0 ELSE 1)
               /\ \A trace_name \in {"selected_project", "projects"} :
                      DrawnMarkers(name, trace_name)
                          = (IF has_position THEN MarkerEntries(name, trace_name)
                             ELSE {})
        /\ \A t \in DOMAIN world_map :
               /\ world_map[t].name \in {"selected_project", "projects"}
               /\ \A k \in DOMAIN world_map[t].points :
                      \E i \in DOMAIN rows :
                          rows[i].Project = world_map[t].points[k].customdata
        /\ \A t1, t2 \in DOMAIN world_map :
               (world_map[t1].name = "selected_project"
                   /\ world_map[t2].name = "projects") => t2 < t1

\* a selected project drawn on top of the normal markers, one of which is a
\* row without coordinates
C26_Witness ==
    /\ Quiescent
    /\ variant = "map_dashboard"
    /\ selected_project_store # <<>>
    /\ Len(world_map) = 2
    /\ world_map[1].name = "projects"
    /\ world_map[2].name = "selected_project"
    /\ Cardinality(DrawnMarkers(selected_project_store, "selected_project")) = 1
    /\ \E k \in DOMAIN world_map[1].points : ~world_map[1].points[k].positioned

(***************************************************************************)
(* Properties of a chat send that overlaps widget changes (SpecAsync).     *)
(***************************************************************************)
\* C27: when the response of a chat send is applied, the year range holds
\* the value the slider had just before if the message names no year range,
\* and the material the value the dropdown had just before if the message
\* names no material, whatever they were when the send was dispatched (a
\* message with a reset keyword names both).
C27_NoLostUpdate ==
    [][(chat_request # <<>> /\ chat_request' = <<>>) =>
          LET commands == parse_filter_command(variant, chat_request[1].message) IN
          /\ {"year_range", "reset"} \cap DOMAIN commands = {}
                 => year_filter' = year_filter
          /\ {"material", "reset"} \cap DOMAIN commands = {}
                 => material_filter' = material_filter]_vars

(***************************************************************************)
(* Properties of the detail panel's content (Spec).                        *)
(***************************************************************************)
\* C28: the detail panel is never open with empty content; and in
\* map_dashboard, once the callbacks of a material, year-range or search
\* change made while project P was selected with its panel open have run,
\* the panel is open and its content is P's details.
C28_PanelContentSurvives ==
    /\ PanelOpen => panel_content # NoContent
    /\ (/\ variant = "map_dashboard"
        /\ Quiescent
        /\ last_event.kind \in {"material", "year", "search", "clear_search"}
        /\ last_event.selection_before # <<>>) =>
           /\ PanelOpen
           /\ panel_content = PanelContent(last_event.selection_before)

(***************************************************************************)
(* Properties of the persisted chat history (SpecChat).                    *)
(***************************************************************************)
\* C29: after a chat exchange that got its reply, the persisted history ends
\* with the user turn of that message followed by an assistant turn; and the
\* persisted history never holds two turns of the same role in a row.
C29_HistoryAlternates ==
    LET history == LoadHistory(chat_history_store) IN
    /\ (LastChatRan /\ last_event.chat.path = "ok") =>
           /\ Len(history) >= 2
           /\ history[Len(history) - 1] = Turn("user", last_event.chat.message)
           /\ history[Len(history)].role = "assistant"
    /\ \A k \in 1..(Len(history) - 1) : history[k].role # history[k + 1].role

(***************************************************************************)
(* Properties of the about panel (SpecAbout).                              *)
(***************************************************************************)
AboutOpen == about_panel_right = "0px"

\* C30: the about panel is open exactly when current-about-section is
\* non-empty, and then its content is the content of that section; a click
\* on the button of the open section closes the panel, a click on a section
\* button otherwise opens that section (from closed, or straight from the
\* other section), and a click on close closes it.
C30_AboutPanel ==
    /\ AboutOpen <=> current_about_section # ""
    /\ current_about_section \in {"", "about-platform", "data-collection"}
    /\ about_panel_content = current_about_section
    /\ about_last.button = "close-about-panel" => ~AboutOpen
    /\ \A b \in {"about-platform-btn", "data-collection-btn"} :
           about_last.button = b =>
               LET section == IF b = "about-platform-btn" THEN "about-platform"
                              ELSE "data-collection"
               IN  IF about_last.section_before = section
                   THEN ~AboutOpen
                   ELSE AboutOpen /\ current_about_section = section

\* Data Collection clicked while About the Platform was open
C30_Witness ==
    /\ about_last.button = "data-collection-btn"
    /\ about_last.section_before = "about-platform"
    /\ AboutOpen
    /\ current_about_section = "data-collection"
    /\ about_panel_content = "data-collection"

=============================================================================
